---- MODULE Spec2Model ----
(***************************************************************************)
(* A model of the fpl-pulse worker's synchronisation engine:               *)
(*   - the circuit breaker and fetchJsonWithRetry   (lib/fpl-api.js)       *)
(*   - processEntryOnce, retryErroredEntries        (services/entry.js)    *)
(*   - the season detector and the harvest          (services/harvest.js)  *)
(*   - the admin revive / requeue endpoints         (worker.js)            *)
(*                                                                         *)
(* Time is counted in ticks of 15 minutes: the breaker's resetTimeout is   *)
(* 1 tick, one hour is 4 ticks.                                            *)
(***************************************************************************)
EXTENDS Integers, FiniteSets, Sequences, TLC

\* ------------------------------------------------------------- bounds
\* the clock runs from 0 to MaxTime
MaxTime == 8
\* concurrent callers of fetchJsonWithRetry
NumCallers == 2
\* entries (teams) known to the store: ids 1..NumEntries
NumEntries == 3
\* gameweeks 1..MaxGW
MaxGW == 2
\* processEntryOnce invocations made from outside the retry manager
\* (the admin backfill endpoints), besides the retry manager's own
NumWorkers == 1
\* no build reads the state of an entry whose stored attempts has reached this
MaxAttempts == 4
\* the entries that have a blob when the harvest begins
NumBuilt == 2
\* the events of a bootstrap response handed to detectLatestFinishedGW
MaxEvents == 2
\* the harvestIfNeeded invocations that can overlap
NumHarvests == 2

\* ---------------------------------------------------------- constants
\* circuitBreaker.maxFailures
maxFailures == 15
\* circuitBreaker.resetTimeout: 15 minutes, one tick
resetTimeout == 1
\* fetchJsonWithRetry(url, tries = 3, ...)
tries == 3
\* 60 * 60 * 1000 ms: four ticks
Hour == 4
\* Number(env.SEASON || 2025)
DefaultSeason == 2025
\* MAX_RETRY_ATTEMPTS
MAX_RETRY_ATTEMPTS == 3
\* RETRY_COOLDOWN_MS = 60 * 60 * 1000
RETRY_COOLDOWN_MS == Hour
\* the stale-building timeout of processEntryOnce, 60 * 60 * 1000
BUILDING_TIMEOUT_MS == Hour
\* retryErroredEntries lists the keys in pages of 100 and stops once 200
\* candidates are collected; the model keeps the ratio, scaled by 1/100
ScanPageLimit == 1
ScanCap == 2
\* retryable.slice(0, 5): the model's batch is scaled to 1, below the scan cap
RetryBatchCap == 1
\* harvestIfNeeded: const concurrency = 5, scaled to 2
HarvestConcurrency == 2
\* updateEntryForGW: transfers are refreshed after 6 hours, the summary
\* after 12
TransfersStaleMs == 6 * Hour
SummaryStaleMs == 12 * Hour

VARIABLES
  now,             \* Date.now(), in ticks
  circuitBreaker,  \* [failures, openUntil]: the process-global breaker
  fcall,           \* fcall[c]: the fetchJsonWithRetry invocation of caller c
  entryState,      \* KV entry:<id>:<season>:state, per entry
  entryBlob,       \* KV entry:<id>:<season>, per entry
  upHist,          \* upstream: the gameweeks that have a row in /history/
  peo,             \* peo[w]: the processEntryOnce invocation of worker w
  rt,              \* the retryErroredEntries invocation
  finishedGW,      \* upstream: the latest finished, data-checked gameweek (0: none)
  detectedSeason,  \* KV detected_season: the season cache
  snapshot,        \* KV snapshot:current, its last_gw (0 when absent)
  seasonElements,  \* KV season:<season>:elements, the gameweeks it holds
  seasonBootstrap, \* KV season:<season>:bootstrap, the gameweek of the stored copy
  hv,              \* the harvestIfNeeded invocation
  detect,          \* a bootstrap response and what detectLatestFinishedGW made of it
  health,          \* the updateHealthStateSummary invocation
  healthSummary,   \* KV health:state_summary
  seasonCall,      \* a getEffectiveSeason call and what it returned
  elem,            \* a SeasonElements document and the last appendElementsForGW on it
  harvests         \* SnapshotCurrent with its season, and overlapping harvestIfNeeded calls

auxVars == <<detect, health, healthSummary, seasonCall, elem, harvests>>
harvestCore == <<finishedGW, detectedSeason, snapshot, seasonElements, seasonBootstrap, hv>>
fetchVars == <<circuitBreaker, fcall>>
entryVars == <<entryState, entryBlob, upHist, peo, rt>>
harvestRest == <<finishedGW, auxVars, snapshot, seasonElements, seasonBootstrap, hv>>
harvestVars == <<detectedSeason, finishedGW, auxVars, snapshot, seasonElements, seasonBootstrap, hv>>
vars == <<now, circuitBreaker, fcall, entryState, entryBlob, upHist, peo, rt,
          finishedGW, auxVars, detectedSeason, snapshot, seasonElements, seasonBootstrap, hv>>

Callers == 1..NumCallers

\* What one network attempt can come back with: a parsed 2xx body, a 2xx
\* whose body fails to parse, 404, 429/503, another non-2xx status, or a
\* network exception thrown by fetch itself.
Responses == {"ok", "badjson", "404", "429", "500", "neterr"}

\* ------------------------------------------------- the circuit breaker

\* reset(): failures = 0, openUntil = 0
reset(cb) == [failures |-> 0, openUntil |-> 0]

\* the value isOpen() returns at time t
isOpen(cb, t) == cb.openUntil > 0 /\ t < cb.openUntil

\* the breaker after an isOpen() call at time t: an expired timeout resets it
afterIsOpen(cb, t) ==
  IF cb.openUntil > 0 /\ t >= cb.openUntil THEN reset(cb) ELSE cb

\* a recordFailure() that counts and never opens the breaker
countOnly(cb, t) == [cb EXCEPT !.failures = @ + 1]

\* recordFailure() at time t
recordFailure(cb, t) ==
  LET f == cb.failures + 1
  IN  [failures  |-> f,
       openUntil |-> IF f >= maxFailures THEN t + resetTimeout ELSE cb.openUntil]

\* a recordSuccess() that forgets every failure
forgetFailures(cb) == [cb EXCEPT !.failures = 0]

\* recordSuccess(): gradual recovery, never below 0
recordSuccess(cb) ==
  IF cb.failures > 0
    THEN [cb EXCEPT !.failures = IF cb.failures - 1 > 0 THEN cb.failures - 1 ELSE 0]
    ELSE cb

\* ------------------------------------------------- fetchJsonWithRetry

\* i is the loop index, lastErr the response that made the last error
IdleCall == [pc |-> "idle", i |-> 0, res |-> "none", lastErr |-> "none"]

\* line 143: the breaker is consulted once, on entry
fetchEnter(c) ==
  /\ fcall[c].pc = "idle"
  /\ circuitBreaker' = afterIsOpen(circuitBreaker, now)
  /\ IF isOpen(circuitBreaker, now)
       THEN fcall' = [fcall EXCEPT ![c] = [IdleCall EXCEPT !.res = "circuit_open"]]
       ELSE fcall' = [fcall EXCEPT ![c] = [IdleCall EXCEPT !.pc = "ready"]]
  /\ UNCHANGED <<now, entryVars, harvestVars>>

\* line 150: attempt i issues the network request
fetchAttempt(c) ==
  /\ fcall[c].pc = "ready"
  /\ fcall' = [fcall EXCEPT ![c].pc = "inflight"]
  /\ UNCHANGED <<now, circuitBreaker, entryVars, harvestVars>>

\* the breaker after the response r of one attempt has been handled
\* (lines 153-181)
breakerAfter(cb, r, t) ==
  CASE r = "ok"      -> recordSuccess(cb)
    [] r = "badjson" -> recordFailure(recordSuccess(cb), t)
    [] r = "429"     -> recordFailure(cb, t)
    [] r = "404"     -> recordFailure(cb, t)
    [] r = "500"     -> recordFailure(recordFailure(cb, t), t)
    [] OTHER         -> recordFailure(cb, t)

\* lines 153-181: the response of attempt i arrives and is handled; a failed
\* attempt sleeps and goes round the loop, the last one throws lastErr
fetchRespond(c, r) ==
  /\ fcall[c].pc = "inflight"
  /\ circuitBreaker' = breakerAfter(circuitBreaker, r, now)
  /\ fcall' = [fcall EXCEPT ![c] =
        IF r = "ok" THEN [IdleCall EXCEPT !.res = "ok"]
        ELSE IF fcall[c].i < tries - 1
          THEN [pc |-> "ready", i |-> fcall[c].i + 1, res |-> "none", lastErr |-> r]
          ELSE [IdleCall EXCEPT !.res = "error", !.lastErr = r]]
  /\ UNCHANGED <<now, entryVars, harvestVars>>

\* the clock advances by d ticks
Tick(d) ==
  /\ now + d <= MaxTime
  /\ now' = now + d
  /\ UNCHANGED <<fetchVars, entryVars, harvestVars>>

\* ============================================================ the store

Entries == 1..NumEntries
GWs == 1..MaxGW
\* worker 0 is the processEntryOnce call made by retryErroredEntries
Workers == 0..NumWorkers

Max(S) == CHOOSE x \in S : \A y \in S : y <= x
Min2(a, b) == IF a < b THEN a ELSE b

\* An EntryState as the code reads it: a field a writer leaves out reads as
\* 0 (state.attempts || 0, state.last_gw_processed ?? 0), an absent
\* worker_started_at is -1, an absent error is "".
NoState ==
  [status |-> "none", last_gw_processed |-> 0, attempts |-> 0,
   updated_at |-> 0, worker_started_at |-> -1, error |-> ""]

mkState(st, lgp, att, upd, wsa, err) ==
  [status |-> st, last_gw_processed |-> lgp, attempts |-> att,
   updated_at |-> upd, worker_started_at |-> wsa, error |-> err]

\* An EntrySeasonBlob: gw_summaries and picks_by_gw are kept as their key sets
NoBlob ==
  [exists |-> FALSE, last_gw_processed |-> 0, gw_summaries |-> {},
   picks_by_gw |-> {}, transfers_last_refreshed_at |-> -1,
   summary_last_refreshed_at |-> -1]

mkBlob(lgp, sums, picks, tra, sra) ==
  [exists |-> TRUE, last_gw_processed |-> lgp, gw_summaries |-> sums,
   picks_by_gw |-> picks, transfers_last_refreshed_at |-> tra,
   summary_last_refreshed_at |-> sra]

\* ===================================================== processEntryOnce

IdlePeo ==
  [pc |-> "idle", e |-> 0, nowIso |-> 0, state |-> NoState,
   readAttempts |-> 0, newAttempts |-> 0, gw_summaries |-> {},
   targetGW |-> 0, picks_by_gw |-> {}, picksReq |-> {}, err |-> "",
   res |-> "none"]

\* the invocation returns (or throws) r: the locals die with it
peoReturn(w, r) == [IdlePeo EXCEPT !.e = peo[w].e, !.res = r]

\* a lock that counts as abandoned from the sixtieth minute on
staleAtTimeout(st, t) ==
  /\ st.status = "building"
  /\ \/ st.worker_started_at < 0
     \/ t - st.worker_started_at >= BUILDING_TIMEOUT_MS

\* lines 20-23: a building lock older than 60 minutes, or with no
\* worker_started_at at all (then the age is counted from the epoch)
isStale(st, t) ==
  /\ st.status = "building"
  /\ \/ st.worker_started_at < 0
     \/ t - st.worker_started_at > BUILDING_TIMEOUT_MS

\* lines 24-29: the state a stale lock is reset to. It carries no attempts.
staleReset(st, t) == mkState("queued", st.last_gw_processed, 0, t, -1, "")

\* a guard that lets every stored status through
anyStatusPasses(st) == st.status # "none"

\* line 34: the guard
passesGuard(st) == st.status = "queued" \/ st.status = "building"

\* line 39
nextAttempts(st) == st.attempts + 1

\* lines 40-46: the building state
buildingState(st, att, t) == mkState("building", st.last_gw_processed, att, t, t, "")

\* a complete state that carries no last_gw_processed
completeAtZero(gw, att, t) == mkState("complete", 0, att, t, -1, "")

\* lines 177-182: the complete state
completeState(gw, att, t) == mkState("complete", gw, att, t, -1, "")

\* a catch block that writes the message and the attempts but keeps the lock
lockKept(msg, att, t) == mkState("building", 0, att, t, t, msg)

\* lines 194-199: the errored state. It carries no last_gw_processed.
erroredState(msg, att, t) == mkState("errored", 0, att, t, -1, msg)

\* lines 109-111: startGW
startGW(blob, target) ==
  IF blob.exists /\ blob.last_gw_processed # 0
    THEN Min2(blob.last_gw_processed + 1, target)
    ELSE 1

\* lines 114-117 and 136-139: the gameweeks whose picks are requested, in
\* the order of the requests: startGW..targetGW first, then the gaps below
\* startGW when there is an existing blob
RECURSIVE gwRange(_, _)
gwRange(a, b) == IF a > b THEN <<>> ELSE <<a>> \o gwRange(a + 1, b)

\* a backfill that requests every gameweek up to the target again
picksAll(blob, sums, target) == gwRange(1, target)

SelectGWs(sq, picks, sums) ==
  SelectSeq(sq, LAMBDA g : g \notin picks /\ g \in sums)

\* a backfill that starts at startGW and never looks below it
picksFromStart(blob, sums, target) ==
  SelectGWs(gwRange(startGW(blob, target), target),
            IF blob.exists THEN blob.picks_by_gw ELSE {}, sums)

picksNeeded(blob, sums, target) ==
  LET s0    == startGW(blob, target)
      picks == IF blob.exists THEN blob.picks_by_gw ELSE {}
      first == SelectGWs(gwRange(s0, target), picks, sums)
      gaps  == IF blob.exists /\ s0 > 1
                 THEN SelectGWs(gwRange(1, s0 - 1), picks, sums)
                 ELSE <<>>
  IN  first \o gaps

SeqSet(sq) == {sq[i] : i \in 1..Len(sq)}

\* a caller invokes processEntryOnce(e): nowIso is taken (line 9)
peoCall(w, e) ==
  /\ peo[w].pc = "idle"
  /\ peo' = [peo EXCEPT ![w] = [IdlePeo EXCEPT !.pc = "read", !.e = e, !.nowIso = now]]
  /\ UNCHANGED <<now, fetchVars, harvestVars, entryState, entryBlob, upHist, rt>>

\* lines 14-36: read the state; no state, or a status that is neither queued
\* nor building (a stale lock counts as queued), returns not_queued
peoRead(w, kvok) ==
  /\ peo[w].pc = "read"
  /\ entryState[peo[w].e].attempts < MaxAttempts   \* the model's bound
  /\ LET st == entryState[peo[w].e]
     IN  peo' = [peo EXCEPT ![w] =
           IF ~kvok THEN peoReturn(w, "threw")
           ELSE IF st.status = "none" THEN peoReturn(w, "not_queued")
           ELSE IF isStale(st, now)
             THEN [@ EXCEPT !.pc = "reset", !.state = st, !.readAttempts = st.attempts]
           ELSE IF ~passesGuard(st) THEN peoReturn(w, "not_queued")
           ELSE [@ EXCEPT !.pc = "mark", !.state = st, !.readAttempts = st.attempts]]
  /\ UNCHANGED <<now, fetchVars, harvestVars, entryState, entryBlob, upHist, rt>>

\* lines 24-30: reset the stale lock to queued
peoReset(w, kvok) ==
  /\ peo[w].pc = "reset"
  /\ LET st == staleReset(peo[w].state, now)
     IN  IF kvok
           THEN /\ entryState' = [entryState EXCEPT ![peo[w].e] = st]
                /\ peo' = [peo EXCEPT ![w].pc = "mark", ![w].state = st]
           ELSE /\ peo' = [peo EXCEPT ![w] = peoReturn(w, "threw")]
                /\ UNCHANGED entryState
  /\ UNCHANGED <<now, fetchVars, harvestVars, entryBlob, upHist, rt>>

\* lines 39-46: mark building, attempts + 1
peoMark(w, kvok) ==
  /\ peo[w].pc = "mark"
  /\ LET att == nextAttempts(peo[w].state)
     IN  IF kvok
           THEN /\ entryState' = [entryState EXCEPT ![peo[w].e] =
                     buildingState(peo[w].state, att, peo[w].nowIso)]
                /\ peo' = [peo EXCEPT ![w].pc = "fetch", ![w].newAttempts = att]
           ELSE /\ peo' = [peo EXCEPT ![w] = peoReturn(w, "threw")]
                /\ UNCHANGED entryState
  /\ UNCHANGED <<now, fetchVars, harvestVars, entryBlob, upHist, rt>>

\* What the summary, history and transfers requests of lines 56-100 come to:
\* one of them throws (retries exhausted, circuit open), the history has no
\* row, its rows carry no usable event id, or it has the rows upHist holds.
FetchOutcomes == {"throws", "badrows", "rows"}

\* lines 56-100: summary, history (gw_summaries, targetGW), transfers
peoFetch(w, out) ==
  /\ peo[w].pc = "fetch"
  /\ LET rows == upHist[peo[w].e]
     IN  peo' = [peo EXCEPT ![w] =
           IF out = "throws" THEN [@ EXCEPT !.pc = "catch", !.err = "fetch_failed"]
           ELSE IF out = "rows" /\ rows = {}
             THEN [@ EXCEPT !.pc = "catch", !.err = "empty_history"]
           ELSE IF out = "badrows"
             THEN [@ EXCEPT !.pc = "catch", !.err = "no_target_gw"]
           ELSE [@ EXCEPT !.pc = "backfill", !.gw_summaries = rows,
                          !.targetGW = Max(rows)]]
  /\ UNCHANGED <<now, fetchVars, harvestVars, entryState, entryBlob, upHist, rt>>

\* lines 104-157: read the existing blob, seed picks_by_gw from it, request
\* the picks that are needed; the first n requests succeed, and when n is
\* less than their number the next one throws
peoBackfill(w, kvok, n) ==
  /\ peo[w].pc = "backfill"
  /\ LET blob == entryBlob[peo[w].e]
         need == picksNeeded(blob, peo[w].gw_summaries, peo[w].targetGW)
         seed == IF blob.exists THEN blob.picks_by_gw ELSE {}
     IN  /\ n <= Len(need)
         /\ peo' = [peo EXCEPT ![w] =
              IF ~kvok THEN [@ EXCEPT !.pc = "catch", !.err = "kv_failed"]
              ELSE IF n < Len(need)
                THEN [@ EXCEPT !.pc = "catch", !.err = "fetch_failed",
                               !.picksReq = SeqSet(SubSeq(need, 1, n + 1))]
              ELSE [@ EXCEPT !.pc = "putblob",
                             !.picks_by_gw = seed \cup SeqSet(need),
                             !.picksReq = SeqSet(need)]]
  /\ UNCHANGED <<now, fetchVars, harvestVars, entryState, entryBlob, upHist, rt>>

\* a finalize that goes on to mark complete without writing the blob
peoSkipBlob(w, kvok) ==
  /\ peo[w].pc = "putblob"
  /\ peo' = [peo EXCEPT ![w].pc = "complete"]
  /\ UNCHANGED <<now, fetchVars, harvestVars, entryState, entryBlob, upHist, rt>>

\* lines 160-176: write the blob
peoPutBlob(w, kvok) ==
  /\ peo[w].pc = "putblob"
  /\ IF kvok
       THEN /\ entryBlob' = [entryBlob EXCEPT ![peo[w].e] =
                 mkBlob(peo[w].targetGW, peo[w].gw_summaries, peo[w].picks_by_gw,
                        peo[w].nowIso, peo[w].nowIso)]
            /\ peo' = [peo EXCEPT ![w].pc = "complete"]
       ELSE /\ peo' = [peo EXCEPT ![w].pc = "catch", ![w].err = "kv_failed"]
            /\ UNCHANGED entryBlob
  /\ UNCHANGED <<now, fetchVars, harvestVars, entryState, upHist, rt>>

\* lines 177-190: mark complete and return ok
peoComplete(w, kvok) ==
  /\ peo[w].pc = "complete"
  /\ IF kvok
       THEN /\ entryState' = [entryState EXCEPT ![peo[w].e] =
                 completeState(peo[w].targetGW, peo[w].newAttempts, now)]
            /\ peo' = [peo EXCEPT ![w] = peoReturn(w, "ok")]
       ELSE /\ peo' = [peo EXCEPT ![w].pc = "catch", ![w].err = "kv_failed"]
            /\ UNCHANGED entryState
  /\ UNCHANGED <<now, fetchVars, harvestVars, entryBlob, upHist, rt>>

\* lines 191-208: the catch block writes the errored state and returns
\* {ok: false, reason: "error"}; a put that fails here throws to the caller
peoCatch(w, kvok) ==
  /\ peo[w].pc = "catch"
  /\ IF kvok
       THEN /\ entryState' = [entryState EXCEPT ![peo[w].e] =
                 erroredState(peo[w].err, peo[w].newAttempts, now)]
            /\ peo' = [peo EXCEPT ![w] = peoReturn(w, "error")]
       ELSE /\ peo' = [peo EXCEPT ![w] = peoReturn(w, "threw")]
            /\ UNCHANGED entryState
  /\ UNCHANGED <<now, fetchVars, harvestVars, entryBlob, upHist, rt>>

\* a worker dies mid-invocation (the isolate is evicted): nothing more is
\* written, and whoever awaited it dies with it
peoCrash(w) ==
  /\ peo[w].pc \notin {"idle", "read"}
  /\ peo' = [peo EXCEPT ![w] = peoReturn(w, "crashed")]
  /\ UNCHANGED <<now, fetchVars, harvestVars, entryState, entryBlob, upHist, rt>>

\* ===================================================== the season cache

\* the detected-season cache: detected_at is -1 while the key is absent
NoSeason == [exists |-> FALSE, detected_at |-> -1, season |-> 0]

\* a cache that never counts as fresh
neverFresh(c, t) == FALSE

\* lines 335-339 and 379-383: the cache is fresh for less than an hour
seasonFresh(c, t) == c.exists /\ t - c.detected_at < Hour

\* what the bootstrap request of detectSeasonFromAPI comes to: the season is
\* derived from the first event's deadline, or the request fails (or has no
\* first event) and the caller falls back to env.SEASON
SeasonOutcomes == {"detected", "null"}

\* What fetchBootstrap() gives detectSeasonFromAPI: the request fails, the
\* response has no first event with a deadline_time, or it has one, of which
\* getFullYear() and getMonth() (0 for January) are kept.
SeasonResponses ==
  {[kind |-> "fail", year |-> 0, month |-> 0],
   [kind |-> "nodeadline", year |-> 0, month |-> 0]}
    \cup [kind : {"deadline"}, year : {2025, 2026}, month : {0, 6, 7, 11}]

\* the response behind an outcome: a first deadline in August 2025, or a
\* failed request
responseOf(out) ==
  IF out = "detected" THEN [kind |-> "deadline", year |-> 2025, month |-> 7]
  ELSE [kind |-> "fail", year |-> 0, month |-> 0]

\* a season that is the calendar year of the deadline
deadlineYear(d) == d.year

\* lines 349-353: the season is the year it starts in
seasonOfDeadline(d) == IF d.month >= 7 THEN d.year ELSE d.year - 1

\* lines 331-373: detectSeasonFromAPI at time t. The result holds the season
\* returned (0 for null), the cache after the call and whether the
\* bootstrap was fetched. A put that fails is caught like a failed fetch.
detectSeasonFromAPI(c, resp, putok, t) ==
  IF seasonFresh(c, t)
    THEN [season |-> c.season, cache |-> c, fetched |-> FALSE]
  ELSE IF resp.kind = "deadline" /\ putok
    THEN [season |-> seasonOfDeadline(resp),
          cache |-> [exists |-> TRUE, detected_at |-> t,
                     season |-> seasonOfDeadline(resp)],
          fetched |-> TRUE]
  ELSE [season |-> 0, cache |-> c, fetched |-> TRUE]

\* lines 376-391: getEffectiveSeason at time t with env.SEASON = env (0 when
\* unset): the season returned, the cache after the call, and whether the
\* bootstrap was fetched
effectiveSeason(c, resp, putok, t, env) ==
  IF seasonFresh(c, t) /\ c.season # 0
    THEN [season |-> c.season, cache |-> c, fetched |-> FALSE]
  ELSE LET d == detectSeasonFromAPI(c, resp, putok, t)
       IN  IF d.season # 0 THEN d
           ELSE [d EXCEPT !.season = IF env # 0 THEN env ELSE DefaultSeason]

\* a getEffectiveSeason call under examination: env.SEASON, what the
\* bootstrap request and the cache put come to, and once it has run the
\* season it returned and whether it fetched
SeasonCalls ==
  [env : {0, 2024}, resp : SeasonResponses, putok : BOOLEAN,
   done : {FALSE}, season : {0}, fetched : {FALSE}]

NoSeasonCall ==
  [env |-> 0, resp |-> [kind |-> "fail", year |-> 0, month |-> 0], putok |-> TRUE,
   done |-> FALSE, season |-> 0, fetched |-> FALSE]

seasonRun ==
  /\ ~seasonCall.done
  /\ LET r == effectiveSeason(detectedSeason, seasonCall.resp, seasonCall.putok,
                              now, seasonCall.env)
     IN  /\ detectedSeason' = r.cache
         /\ seasonCall' = [seasonCall EXCEPT !.done = TRUE, !.season = r.season,
                                             !.fetched = r.fetched]
  /\ UNCHANGED <<now, fetchVars, entryVars, detect, health, healthSummary, elem, harvests,
                 finishedGW, snapshot, seasonElements, seasonBootstrap, hv>>

\* line 357: detectSeasonFromAPI puts the cache when it is not fresh and the
\* detection succeeds
seasonWrites(c, out, t) == ~seasonFresh(c, t) /\ out = "detected"

\* getEffectiveSeason, with detectSeasonFromAPI behind it: the cache after
\* the call. A fresh cache is left alone; otherwise a successful detection
\* writes it anew.
getEffectiveSeason(c, out, t) == effectiveSeason(c, responseOf(out), TRUE, t, 0).cache

\* ================================================== retryErroredEntries

IdleRetry ==
  [pc |-> "idle", candidates |-> <<>>, k |-> 0, retryable |-> <<>>,
   b |-> 0, succeeded |-> 0, deadLettered |-> 0, res |-> "none",
   retried |-> 0, eligible |-> 0]

\* KV list({prefix: "entry:"}): the keys in lexicographic order, the blob key
\* entry:<id>:<season> before the state key entry:<id>:<season>:state
RECURSIVE keysFrom(_)
keysFrom(e) ==
  IF e > NumEntries THEN <<>>
  ELSE (IF entryBlob[e].exists THEN <<[id |-> e, kind |-> "blob"]>> ELSE <<>>)
       \o (IF entryState[e].status # "none" THEN <<[id |-> e, kind |-> "state"]>> ELSE <<>>)
       \o keysFrom(e + 1)

\* the ids of the state keys of a page
stateIds(page) ==
  LET sel == SelectSeq(page, LAMBDA key : key.kind = "state")
  IN  [i \in 1..Len(sel) |-> sel[i].id]

\* lines 221-231: page after page, until the listing is complete or the
\* candidates have reached the cap
RECURSIVE scanPages(_, _, _)
scanPages(keys, pos, cands) ==
  LET last  == Min2(pos + ScanPageLimit - 1, Len(keys))
      cand2 == cands \o stateIds(SubSeq(keys, pos, last))
  IN  IF Len(cand2) >= ScanCap \/ last >= Len(keys)
        THEN cand2
        ELSE scanPages(keys, last + 1, cand2)

scanCandidates == scanPages(keysFrom(1), 1, <<>>)

\* lines 215-231: resolve the season and list the candidates
retryStart(kvok, out) ==
  /\ rt.pc = "idle"
  /\ IF kvok
       THEN /\ rt' = [IdleRetry EXCEPT !.pc = "scan", !.candidates = scanCandidates, !.k = 1]
            /\ detectedSeason' = getEffectiveSeason(detectedSeason, out, now)
       ELSE /\ rt' = [IdleRetry EXCEPT !.res = "threw"]
            /\ UNCHANGED detectedSeason
  /\ UNCHANGED <<now, fetchVars, harvestRest, entryState, entryBlob, upHist, peo>>

\* a dead-letter write that leaves the state as it was
sameState(st, t) == st

\* lines 243-248: the dead state
deadState(st, t) == mkState("dead", 0, st.attempts, t, -1,
                            IF st.error # "" THEN st.error ELSE "max retries exhausted")

\* a retry pass that takes no entry for exhausted
neverExhausted(st) == FALSE

\* line 242
exhausted(st) == st.attempts >= MAX_RETRY_ATTEMPTS

\* a cooldown that is always over
neverCooling(st, t) == FALSE

\* lines 260-261
coolingDown(st, t) == t - st.updated_at < RETRY_COOLDOWN_MS

\* a batch that takes every eligible entry
wholeList(retryable) == retryable

\* line 267
retryBatch(retryable) == SubSeq(retryable, 1, Min2(RetryBatchCap, Len(retryable)))

\* lines 237-264: one candidate of the scan loop
retryScan(kvok) ==
  /\ rt.pc = "scan"
  /\ rt.k <= Len(rt.candidates)
  /\ LET id == rt.candidates[rt.k]
         st == entryState[id]
     IN  IF ~kvok
           THEN /\ rt' = [IdleRetry EXCEPT !.res = "threw"]
                /\ UNCHANGED entryState
         ELSE IF st.status # "errored"
           THEN /\ rt' = [rt EXCEPT !.k = @ + 1]
                /\ UNCHANGED entryState
         ELSE IF exhausted(st)
           THEN /\ entryState' = [entryState EXCEPT ![id] = deadState(st, now)]
                /\ rt' = [rt EXCEPT !.k = @ + 1, !.deadLettered = @ + 1]
         ELSE IF coolingDown(st, now)
           THEN /\ rt' = [rt EXCEPT !.k = @ + 1]
                /\ UNCHANGED entryState
         ELSE /\ rt' = [rt EXCEPT !.k = @ + 1,
                          !.retryable = Append(@, [id |-> id, attempts |-> st.attempts])]
              /\ UNCHANGED entryState
  /\ UNCHANGED <<now, fetchVars, harvestVars, entryBlob, upHist, peo>>

\* a re-queue that starts the count of attempts again
requeuedFresh(att, t) == mkState("queued", 0, 0, t, -1, "")

\* lines 271-276: the state an eligible entry is re-queued with
requeuedState(att, t) == mkState("queued", 0, att, t, -1, "")

\* line 290
retryResult(r) ==
  [IdleRetry EXCEPT !.res = "returned",
                    !.retried = Len(retryBatch(r.retryable)),
                    !.succeeded = r.succeeded,
                    !.eligible = Len(r.retryable)]

\* lines 267-278: the scan is over; re-queue the next entry of the batch and
\* call processEntryOnce for it, or return when the batch is done
retryRequeue(kvok) ==
  /\ rt.pc = "scan"
  /\ rt.k > Len(rt.candidates)
  /\ peo[0].pc = "idle"
  /\ LET batch == retryBatch(rt.retryable)
     IN  IF rt.b >= Len(batch)
           THEN /\ rt' = retryResult(rt)
                /\ UNCHANGED <<entryState, peo>>
         ELSE IF ~kvok
           THEN /\ rt' = [IdleRetry EXCEPT !.res = "threw"]
                /\ UNCHANGED <<entryState, peo>>
         ELSE /\ entryState' = [entryState EXCEPT ![batch[rt.b + 1].id] =
                     requeuedState(batch[rt.b + 1].attempts, now)]
              /\ peo' = [peo EXCEPT ![0] =
                     [IdlePeo EXCEPT !.pc = "read", !.e = batch[rt.b + 1].id,
                                     !.nowIso = now]]
              /\ rt' = [rt EXCEPT !.pc = "await", !.b = @ + 1]
  /\ UNCHANGED <<now, fetchVars, harvestVars, entryBlob, upHist>>

\* lines 278-279: processEntryOnce has returned; a throw or a crash of it
\* ends the pass
retryAwait ==
  /\ rt.pc = "await"
  /\ peo[0].pc = "idle"
  /\ rt' = IF peo[0].res = "threw" THEN [IdleRetry EXCEPT !.res = "threw"]
           ELSE IF peo[0].res = "crashed" THEN [IdleRetry EXCEPT !.res = "crashed"]
           ELSE [rt EXCEPT !.pc = "scan",
                           !.succeeded = IF peo[0].res = "ok" THEN @ + 1 ELSE @]
  /\ UNCHANGED <<now, fetchVars, harvestVars, entryState, entryBlob, upHist, peo>>

\* ============================================ updateHealthStateSummary

Statuses == {"queued", "building", "complete", "errored", "dead"}
ZeroCounts == [st \in Statuses |-> 0]

\* the invocation: the state keys listed, the index of the next one to
\* read, the tally so far, and how it ended
IdleHealth ==
  [pc |-> "idle", keys |-> <<>>, k |-> 0, counts |-> ZeroCounts, res |-> "none"]

\* KV health:state_summary
NoSummary == [exists |-> FALSE, counts |-> ZeroCounts, total |-> 0, updated_at |-> -1]

\* a total that leaves the dead entries out
totalAlive(counts) ==
  counts["queued"] + counts["building"] + counts["complete"] + counts["errored"]

\* line 314: Object.values(counts).reduce((a, b) => a + b, 0)
totalOf(counts) ==
  counts["queued"] + counts["building"] + counts["complete"]
    + counts["errored"] + counts["dead"]

\* lines 295-301: resolve the season and list the keys under entry:
healthStart(kvok, out) ==
  /\ health.pc = "idle"
  /\ IF kvok
       THEN /\ health' = [IdleHealth EXCEPT !.pc = "scan", !.k = 1,
                                            !.keys = stateIds(keysFrom(1))]
            /\ detectedSeason' = getEffectiveSeason(detectedSeason, out, now)
       ELSE /\ health' = [IdleHealth EXCEPT !.res = "threw"]
            /\ UNCHANGED detectedSeason
  /\ UNCHANGED <<now, fetchVars, entryVars, detect, healthSummary, seasonCall, elem, harvests, finishedGW,
                 snapshot, seasonElements, seasonBootstrap, hv>>

\* lines 303-309: read the state behind the next key and tally its status
healthScan(kvok) ==
  /\ health.pc = "scan"
  /\ health.k <= Len(health.keys)
  /\ LET st == entryState[health.keys[health.k]]
     IN  health' =
           IF ~kvok THEN [IdleHealth EXCEPT !.res = "threw"]
           ELSE IF st.status \in Statuses
             THEN [health EXCEPT !.k = @ + 1, !.counts[st.status] = @ + 1]
           ELSE [health EXCEPT !.k = @ + 1]
  /\ UNCHANGED <<now, fetchVars, entryVars, detect, healthSummary, seasonCall, elem, harvests, harvestCore>>

\* lines 312-322: put the summary and return it
healthPut(kvok) ==
  /\ health.pc = "scan"
  /\ health.k > Len(health.keys)
  /\ IF kvok
       THEN /\ healthSummary' = [exists |-> TRUE, counts |-> health.counts,
                                 total |-> totalOf(health.counts), updated_at |-> now]
            /\ health' = [IdleHealth EXCEPT !.res = "returned", !.counts = health.counts]
       ELSE /\ health' = [IdleHealth EXCEPT !.res = "threw"]
            /\ UNCHANGED healthSummary
  /\ UNCHANGED <<now, fetchVars, entryVars, detect, seasonCall, elem, harvests, harvestCore>>

\* ================================================ the admin endpoints

\* POST /admin/league/:id/ingest: an entry with neither blob nor state is
\* created queued
ingest(e) ==
  /\ ~entryBlob[e].exists
  /\ entryState[e].status = "none"
  /\ entryState' = [entryState EXCEPT ![e] = mkState("queued", 0, 0, now, -1, "")]
  /\ UNCHANGED <<now, fetchVars, harvestVars, entryBlob, upHist, peo, rt>>

\* POST /admin/entries/:entryId/revive: a dead or errored entry is queued
\* again with attempts 0
revive(e) ==
  /\ entryState[e].status \in {"dead", "errored"}
  /\ entryState' = [entryState EXCEPT ![e] =
        mkState("queued", entryState[e].last_gw_processed, 0, now, -1, "")]
  /\ UNCHANGED <<now, fetchVars, harvestVars, entryBlob, upHist, peo, rt>>

\* POST /admin/entries/bulk, action requeue: whatever its state, the entry
\* is queued again with attempts 0, its last_gw_processed kept
bulkRequeue(e) ==
  /\ entryState[e].status # "none"
  /\ entryState' = [entryState EXCEPT ![e] =
        mkState("queued", entryState[e].last_gw_processed, 0, now, -1, "")]
  /\ UNCHANGED <<now, fetchVars, harvestVars, entryBlob, upHist, peo, rt>>

\* ======================================================= the upstream

\* a row for gameweek g appears in the history of entry e
upstreamRow(e, g) ==
  /\ g \notin upHist[e]
  /\ upHist' = [upHist EXCEPT ![e] = @ \cup {g}]
  /\ UNCHANGED <<now, fetchVars, harvestVars, entryState, entryBlob, peo, rt>>

\* the next gameweek is finished and its data checked
gwFinishes ==
  /\ finishedGW < MaxGW
  /\ finishedGW' = finishedGW + 1
  /\ UNCHANGED <<now, fetchVars, entryVars, auxVars, detectedSeason, snapshot,
                 seasonElements, seasonBootstrap, hv>>

\* ========================================================== the harvest

\* the age of the season cache at time t, -1 while the key is absent
cacheAge(c, t) == IF c.exists THEN t - c.detected_at ELSE -1

\* the harvestIfNeeded invocation: delaySec > 0 or not, the age of the
\* season cache found at the call, prevId, allEntryIds and the index of the
\* next one to launch, the launched updates not yet settled, whether one of
\* them rejected, the KV keys this invocation has put, and its result
IdleHarvest ==
  [pc |-> "idle", delayed |-> FALSE, cachedAge |-> -1,
   prevId |-> 0, ids |-> <<>>, i |-> 0, pending |-> {}, failed |-> FALSE,
   wrote |-> {}, res |-> "none", reason |-> ""]

\* the invocation returns (or throws): what the caller can observe
hvReturn(r, why) ==
  [IdleHarvest EXCEPT !.res = r, !.reason = why, !.wrote = hv.wrote]

\* --- bootstrap-static responses. A flag of an event is true, false, or
\* anything else (absent, null, a string); Number(e.id) is finite or not.
Flags == {"true", "false", "absent"}

Events ==
  [hasId : {TRUE}, id : GWs, finished : Flags, data_checked : Flags]
    \cup [hasId : {FALSE}, id : {0}, finished : Flags, data_checked : Flags]

\* a null response, an object whose events is no array, or a list of events
Bootstraps ==
  {[kind |-> "null", events |-> <<>>], [kind |-> "noevents", events |-> <<>>]}
    \cup {[kind |-> "events", events |-> sq] :
            sq \in UNION {[1..k -> Events] : k \in 0..MaxEvents}}

\* what detectLatestFinishedGW returns: null, a number, or -Infinity
NullGW == [kind |-> "null", n |-> 0]
NegInfinity == [kind |-> "-Infinity", n |-> 0]
NumberGW(k) == [kind |-> "number", n |-> k]

\* Math.max(...ids) over the events that have a finite id
RECURSIVE mathMaxIds(_)
mathMaxIds(sq) ==
  IF sq = <<>> THEN NegInfinity
  ELSE LET r == mathMaxIds(Tail(sq))
       IN  IF r.kind = "-Infinity" \/ Head(sq).id > r.n
             THEN NumberGW(Head(sq).id) ELSE r

\* a detection that looks at finished alone
detectFinishedOnly(bootstrap) ==
  LET done == IF bootstrap.kind = "events"
                THEN SelectSeq(bootstrap.events, LAMBDA e : e.finished = "true")
                ELSE <<>>
  IN  IF Len(done) = 0 THEN NullGW
      ELSE mathMaxIds(SelectSeq(done, LAMBDA e : e.hasId))

\* lines 393-399: the bootstrap's latest finished and data-checked event
detectLatestFinishedGW(bootstrap) ==
  LET done == IF bootstrap.kind = "events"
                THEN SelectSeq(bootstrap.events,
                               LAMBDA e : e.finished = "true" /\ e.data_checked = "true")
                ELSE <<>>
  IN  IF Len(done) = 0 THEN NullGW
      ELSE mathMaxIds(SelectSeq(done, LAMBDA e : e.hasId))

\* the bootstrap the upstream serves while gw is its latest finished and
\* data-checked gameweek
upstreamBootstrap(gw) ==
  [kind |-> "events",
   events |-> [i \in 1..MaxGW |->
                 [hasId |-> TRUE, id |-> i,
                  finished |-> IF i <= gw THEN "true" ELSE "false",
                  data_checked |-> IF i <= gw THEN "true" ELSE "false"]]]

\* the detection under examination: a response, and the result once
\* detectLatestFinishedGW has run on it
NoDetect ==
  [bootstrap |-> [kind |-> "null", events |-> <<>>],
   result |-> [kind |-> "unset", n |-> 0]]

detectRun ==
  /\ detect.result.kind = "unset"
  /\ detect' = [detect EXCEPT !.result = detectLatestFinishedGW(detect.bootstrap)]
  /\ UNCHANGED <<now, fetchVars, entryVars, harvestCore, health, healthSummary, seasonCall, elem, harvests>>

\* line 549: the snapshot is at or beyond the latest finished gameweek
upToDate(snap, prevId) == snap >= prevId

\* lines 562-580: the ids whose blob key entry:<id>:<season> is listed
RECURSIVE blobIdsFrom(_)
blobIdsFrom(e) ==
  IF e > NumEntries THEN <<>>
  ELSE (IF entryBlob[e].exists THEN <<e>> ELSE <<>>) \o blobIdsFrom(e + 1)

\* the cron or an admin endpoint calls harvestIfNeeded(env, {delaySec})
harvestCall(delay) ==
  /\ hv.pc = "idle"
  /\ hv' = [IdleHarvest EXCEPT !.pc = "season", !.delayed = delay,
                               !.cachedAge = cacheAge(detectedSeason, now)]
  /\ UNCHANGED <<now, fetchVars, entryVars, finishedGW, auxVars, detectedSeason,
                 snapshot, seasonElements, seasonBootstrap>>

\* line 543: getEffectiveSeason
hvSeason(out) ==
  /\ hv.pc = "season"
  /\ detectedSeason' = getEffectiveSeason(detectedSeason, out, now)
  /\ hv' = [hv EXCEPT !.pc = "bootstrap",
                      !.wrote = IF seasonWrites(detectedSeason, out, now)
                                  THEN @ \cup {"detected_season"} ELSE @]
  /\ UNCHANGED <<now, fetchVars, entryVars, finishedGW, auxVars, snapshot,
                 seasonElements, seasonBootstrap>>

\* lines 546-559: fetch the bootstrap; noop when no gameweek is finished or
\* the snapshot is up to date; delayed when asked to; else store the bootstrap
hvBootstrap(ok) ==
  /\ hv.pc = "bootstrap"
  /\ LET found  == detectLatestFinishedGW(upstreamBootstrap(finishedGW))
         prevId == found.n
     IN  IF ~ok
           THEN hv' = hvReturn("threw", "") /\ UNCHANGED seasonBootstrap
         ELSE IF found.kind # "number"
           THEN hv' = hvReturn("noop", "no_finished_gw") /\ UNCHANGED seasonBootstrap
         ELSE IF upToDate(snapshot, prevId)
           THEN hv' = hvReturn("noop", "already_up_to_date") /\ UNCHANGED seasonBootstrap
         ELSE IF hv.delayed
           THEN hv' = hvReturn("delayed", "") /\ UNCHANGED seasonBootstrap
         ELSE /\ seasonBootstrap' = prevId
              /\ hv' = [hv EXCEPT !.pc = "elements", !.prevId = prevId,
                                  !.wrote = @ \cup {"bootstrap"}]
  /\ UNCHANGED <<now, fetchVars, entryVars, finishedGW, auxVars, detectedSeason,
                 snapshot, seasonElements>>

\* --- the SeasonElements document (lines 403-414): gws maps a gameweek to
\* the live payload stored for it, 0 standing for no entry and 1 or 2 for two
\* different payloads
Payloads == {1, 2}

ElementsDocs ==
  [exists : BOOLEAN, last_gw_processed : 0..MaxGW, gws : [GWs -> {0} \cup Payloads]]

\* line 405: what stands in for a missing document
EmptyElements ==
  [exists |-> FALSE, last_gw_processed |-> 0, gws |-> [g \in GWs |-> 0]]

\* an append that fetches and stores whatever the document holds, and sets
\* last_gw_processed to the gameweek it was called for
appendAlways(doc, gw, live, fetchOk, putOk) ==
  IF ~fetchOk \/ ~putOk
    THEN [doc |-> doc, res |-> "threw", fetched |-> TRUE, wrote |-> FALSE]
    ELSE [doc |-> [exists |-> TRUE, last_gw_processed |-> gw,
                   gws |-> [doc.gws EXCEPT ![gw] = live]],
          res |-> "wrote", fetched |-> TRUE, wrote |-> TRUE]

\* lines 403-414: appendElementsForGW(env, season, gw) on the stored document
\* doc, when the live request answers live (or fails) and the put succeeds
\* (or fails): the document it leaves, what it returns, and whether it
\* fetched and put
appendElementsForGW(doc, gw, live, fetchOk, putOk) ==
  LET cur == IF doc.exists THEN doc ELSE EmptyElements
  IN  IF cur.gws[gw] # 0
        THEN [doc |-> doc, res |-> "already_present", fetched |-> FALSE, wrote |-> FALSE]
      ELSE IF ~fetchOk
        THEN [doc |-> doc, res |-> "threw", fetched |-> TRUE, wrote |-> FALSE]
      ELSE IF ~putOk
        THEN [doc |-> doc, res |-> "threw", fetched |-> TRUE, wrote |-> FALSE]
      ELSE [doc |-> [exists |-> TRUE,
                     last_gw_processed |-> IF cur.last_gw_processed > gw
                                             THEN cur.last_gw_processed ELSE gw,
                     gws |-> [cur.gws EXCEPT ![gw] = live]],
            res |-> "wrote", fetched |-> TRUE, wrote |-> TRUE]

NoElem ==
  [doc |-> EmptyElements, gw |-> 0, live |-> 0, res |-> "none", fetched |-> FALSE,
   wrote |-> FALSE]

\* one call of appendElementsForGW on the stored document; live is what the
\* live endpoint holds for the gameweek at the time of the call
elementsRun(gw, live, fetchOk, putOk) ==
  /\ LET r == appendElementsForGW(elem.doc, gw, live, fetchOk, putOk)
     IN  elem' = [doc |-> r.doc, gw |-> gw, live |-> live, res |-> r.res,
                  fetched |-> r.fetched, wrote |-> r.wrote]
  /\ UNCHANGED <<now, fetchVars, entryVars, harvestCore, detect, health, healthSummary,
                 seasonCall, harvests>>

\* lines 403-414 and 560-580: appendElementsForGW (skipped when the gameweek
\* is already present), then the listing of the blob keys
hvElements(ok) ==
  /\ hv.pc = "elements"
  /\ IF hv.prevId \in seasonElements
       THEN /\ hv' = [hv EXCEPT !.pc = "fan", !.ids = blobIdsFrom(1), !.i = 1]
            /\ UNCHANGED seasonElements
     ELSE IF ~ok
       THEN /\ hv' = hvReturn("threw", "")
            /\ UNCHANGED seasonElements
     ELSE /\ seasonElements' = seasonElements \cup {hv.prevId}
          /\ hv' = [hv EXCEPT !.pc = "fan", !.ids = blobIdsFrom(1), !.i = 1,
                              !.wrote = @ \cup {"elements"}]
  /\ UNCHANGED <<now, fetchVars, entryVars, finishedGW, auxVars, detectedSeason,
                 snapshot, seasonBootstrap>>

\* a fan-out loop that never waits for a batch
launchUnbounded(overBudget) ==
  /\ hv.pc = "fan"
  /\ hv' = IF hv.i > Len(hv.ids) \/ overBudget
             THEN [hv EXCEPT !.pc = "drain"]
             ELSE [hv EXCEPT !.pending = @ \cup {hv.ids[hv.i]}, !.i = @ + 1]
  /\ UNCHANGED <<now, fetchVars, entryVars, finishedGW, auxVars, detectedSeason,
                 snapshot, seasonElements, seasonBootstrap>>

\* lines 583-598: one turn of the fan-out loop. The loop ends when every id
\* is launched, or breaks when more than 25 s have passed since t0; else the
\* next update is launched, and once HarvestConcurrency of them are pending
\* the loop waits for them all
hvLaunch(overBudget) ==
  /\ hv.pc = "fan"
  /\ hv' = IF hv.i > Len(hv.ids) \/ overBudget
             THEN [hv EXCEPT !.pc = "drain"]
             ELSE [hv EXCEPT !.pending = @ \cup {hv.ids[hv.i]}, !.i = @ + 1,
                             !.pc = IF Cardinality(hv.pending) + 1 >= HarvestConcurrency
                                      THEN "await" ELSE "fan"]
  /\ UNCHANGED <<now, fetchVars, entryVars, finishedGW, auxVars, detectedSeason,
                 snapshot, seasonElements, seasonBootstrap>>

\* lines 471-476 and 507-512: a refresh timestamp is stale when absent or
\* older than the window
refreshStale(at, window, t) == at < 0 \/ t - at > window

\* an update that always finds its blob changed
alwaysChanged(blob, gw, hasRow, traOk, sumOk, t) == TRUE

\* lines 421, 442-443, 465-466, 493-495, 516-518 and 529: changed, which
\* decides whether updateEntryForGW puts the blob: a summary row was added,
\* picks were added, or a stale transfers or profile summary was refreshed
updateChanged(blob, gw, hasRow, traOk, sumOk, t) ==
  \/ gw \notin blob.gw_summaries /\ hasRow
  \/ gw \notin blob.picks_by_gw
  \/ refreshStale(blob.transfers_last_refreshed_at, TransfersStaleMs, t) /\ traOk
  \/ refreshStale(blob.summary_last_refreshed_at, SummaryStaleMs, t) /\ sumOk

\* lines 416-536: the blob updateEntryForGW leaves for gameweek gw, given
\* whether the history has a row for it and whether the transfers and
\* summary requests succeed
updatedBlob(blob, gw, hasRow, traOk, sumOk, t) ==
  LET sums   == IF gw \notin blob.gw_summaries /\ hasRow
                  THEN blob.gw_summaries \cup {gw} ELSE blob.gw_summaries
      picks  == blob.picks_by_gw \cup {gw}
      traNew == refreshStale(blob.transfers_last_refreshed_at, TransfersStaleMs, t) /\ traOk
      sumNew == refreshStale(blob.summary_last_refreshed_at, SummaryStaleMs, t) /\ sumOk
      changed == updateChanged(blob, gw, hasRow, traOk, sumOk, t)
  IN  IF changed
        THEN mkBlob(IF blob.last_gw_processed > gw THEN blob.last_gw_processed ELSE gw,
                    sums, picks,
                    IF traNew THEN t ELSE blob.transfers_last_refreshed_at,
                    IF sumNew THEN t ELSE blob.summary_last_refreshed_at)
        ELSE blob

\* lines 416-536: a launched updateEntryForGW(e, prevId) runs, which it does
\* once harvestIfNeeded waits at one of its two Promise.all: the loop itself
\* launches a whole batch without yielding. A history or picks request that
\* throws rejects the update; failed transfers and summary refreshes are
\* swallowed
updateEntryForGW(e, histOk, picksOk, traOk, sumOk) ==
  /\ hv.pc \in {"await", "drain"}
  /\ e \in hv.pending
  /\ LET blob == entryBlob[e]
         gw   == hv.prevId
         rejects == \/ gw \notin blob.gw_summaries /\ ~histOk
                    \/ gw \notin blob.picks_by_gw /\ ~picksOk
         new  == updatedBlob(blob, gw, gw \in upHist[e], traOk, sumOk, now)
         puts == updateChanged(blob, gw, gw \in upHist[e], traOk, sumOk, now)
     IN  IF ~blob.exists
           THEN /\ hv' = [hv EXCEPT !.pending = @ \ {e}]
                /\ UNCHANGED entryBlob
         ELSE IF rejects
           THEN /\ hv' = [hv EXCEPT !.pending = @ \ {e}, !.failed = TRUE]
                /\ UNCHANGED entryBlob
         ELSE /\ entryBlob' = [entryBlob EXCEPT ![e] = new]
              /\ hv' = [hv EXCEPT !.pending = @ \ {e},
                                  !.wrote = IF puts THEN @ \cup {"blob"} ELSE @]
  /\ UNCHANGED <<now, fetchVars, entryState, upHist, peo, rt, finishedGW, auxVars,
                 detectedSeason, snapshot, seasonElements, seasonBootstrap>>

\* line 595: await Promise.all(pending.splice(0)) resolves once every update
\* of the batch has resolved, and rejects as soon as one of them has
\* rejected: harvestIfNeeded throws, and the updates of the batch that are
\* still in flight are left behind
hvAwait ==
  /\ hv.pc = "await"
  /\ hv.pending = {} \/ hv.failed
  /\ hv' = IF hv.failed THEN hvReturn("threw", "") ELSE [hv EXCEPT !.pc = "fan"]
  /\ UNCHANGED <<now, fetchVars, entryVars, finishedGW, auxVars, detectedSeason,
                 snapshot, seasonElements, seasonBootstrap>>

\* lines 538-540: the snapshot updateSnapshot writes
updateSnapshot(gw) == gw

\* a harvest that writes the snapshot whether or not an update rejected
hvDrainAnyway ==
  /\ hv.pc = "drain"
  /\ hv.pending = {} \/ hv.failed
  /\ snapshot' = updateSnapshot(hv.prevId)
  /\ hv' = [hvReturn(IF hv.failed THEN "threw" ELSE "ok", "") EXCEPT !.wrote = @ \cup {"snapshot"}]
  /\ UNCHANGED <<now, fetchVars, entryVars, finishedGW, auxVars, detectedSeason,
                 seasonElements, seasonBootstrap>>

\* lines 600-610: wait for what is pending, then updateSnapshot and return ok
hvDrain ==
  /\ hv.pc = "drain"
  /\ hv.pending = {} \/ hv.failed
  /\ IF hv.failed
       THEN hv' = hvReturn("threw", "") /\ UNCHANGED snapshot
       ELSE /\ snapshot' = updateSnapshot(hv.prevId)
            /\ hv' = [hvReturn("ok", "") EXCEPT !.wrote = @ \cup {"snapshot"}]
  /\ UNCHANGED <<now, fetchVars, entryVars, finishedGW, auxVars, detectedSeason,
                 seasonElements, seasonBootstrap>>

\* ------------------------------- SnapshotCurrent under overlapping calls

\* harvestIfNeeded takes no lock: the cron (worker.js 1957) and the admin
\* route (worker.js 1786) can each have an invocation under way
Invocations == 1..NumHarvests

\* the seasons getEffectiveSeason resolves to: this one and the next
HarvestSeasons == {DefaultSeason, DefaultSeason + 1}

\* KV snapshot:current as updateSnapshot writes it; absent reads as null
NoSnapshot == [exists |-> FALSE, season |-> 0, last_gw |-> 0]

\* one invocation: the season and prevId it resolved, and what it returned
IdleInvocation ==
  [pc |-> "idle", delayed |-> FALSE, season |-> 0, prevId |-> 0,
   res |-> "none", reason |-> ""]

\* season is the season getEffectiveSeason resolves to at present
NoHarvests ==
  [season |-> DefaultSeason, snap |-> NoSnapshot,
   inv |-> [i \in Invocations |-> IdleInvocation]]

invReturn(i, r, why) ==
  [harvests.inv[i] EXCEPT !.pc = "idle", !.res = r, !.reason = why]

\* lines 549-550: snap defaults to {season, last_gw: 0}; last_gw alone is
\* compared with prevId
snapUpToDate(snap, season, prevId) ==
  (IF snap.exists THEN snap.last_gw ELSE 0) >= prevId

\* line 543: the call resolves its season
hsCall(i, delay) ==
  /\ harvests.inv[i].pc = "idle"
  /\ harvests' = [harvests EXCEPT !.inv[i] =
        [IdleInvocation EXCEPT !.pc = "bootstrap", !.delayed = delay,
                               !.season = harvests.season]]
  /\ UNCHANGED <<now, fetchVars, entryVars, harvestCore, detect, health, healthSummary,
                 seasonCall, elem>>

\* lines 546-548: fetch the bootstrap and find prevId
hsBootstrap(i, ok) ==
  /\ harvests.inv[i].pc = "bootstrap"
  /\ LET found == detectLatestFinishedGW(upstreamBootstrap(finishedGW))
     IN  harvests' = [harvests EXCEPT !.inv[i] =
           IF ~ok THEN invReturn(i, "threw", "")
           ELSE IF found.kind # "number" THEN invReturn(i, "noop", "no_finished_gw")
           ELSE [@ EXCEPT !.pc = "check", !.prevId = found.n]]
  /\ UNCHANGED <<now, fetchVars, entryVars, harvestCore, detect, health, healthSummary,
                 seasonCall, elem>>

\* lines 549-557: read the snapshot; noop when it is up to date, delayed when
\* asked to
hsCheck(i, ok) ==
  /\ harvests.inv[i].pc = "check"
  /\ LET me == harvests.inv[i]
     IN  harvests' = [harvests EXCEPT !.inv[i] =
           IF ~ok THEN invReturn(i, "threw", "")
           ELSE IF snapUpToDate(harvests.snap, me.season, me.prevId)
             THEN invReturn(i, "noop", "already_up_to_date")
           ELSE IF me.delayed THEN invReturn(i, "delayed", "")
           ELSE [@ EXCEPT !.pc = "work"]]
  /\ UNCHANGED <<now, fetchVars, entryVars, harvestCore, detect, health, healthSummary,
                 seasonCall, elem>>

\* lines 559-607: the bootstrap copy, the elements and the fan-out over the
\* blobs; none of them touches snapshot:current
hsWork(i, ok) ==
  /\ harvests.inv[i].pc = "work"
  /\ harvests' = [harvests EXCEPT !.inv[i] =
        IF ok THEN [@ EXCEPT !.pc = "snapshot"] ELSE invReturn(i, "threw", "")]
  /\ UNCHANGED <<now, fetchVars, entryVars, harvestCore, detect, health, healthSummary,
                 seasonCall, elem>>

\* lines 538-540 and 609-610: updateSnapshot(env, season, prevId), return ok
hsSnapshot(i, ok) ==
  /\ harvests.inv[i].pc = "snapshot"
  /\ LET me == harvests.inv[i]
     IN  harvests' =
           IF ok
             THEN [harvests EXCEPT
                     !.snap = [exists |-> TRUE, season |-> me.season, last_gw |-> me.prevId],
                     !.inv[i] = invReturn(i, "ok", "")]
             ELSE [harvests EXCEPT !.inv[i] = invReturn(i, "threw", "")]
  /\ UNCHANGED <<now, fetchVars, entryVars, harvestCore, detect, health, healthSummary,
                 seasonCall, elem>>

\* the upstream moves to the next season: no gameweek of it has finished, and
\* getEffectiveSeason resolves to it from now on
seasonTurns ==
  /\ harvests.season = DefaultSeason
  /\ harvests' = [harvests EXCEPT !.season = DefaultSeason + 1]
  /\ finishedGW' = 0
  /\ UNCHANGED <<now, fetchVars, entryVars, detect, health, healthSummary, seasonCall,
                 elem, detectedSeason, snapshot, seasonElements, seasonBootstrap, hv>>

\* ====================================================== specifications

\* nothing harvested yet: no finished gameweek, no season cache, no snapshot
InitHarvest ==
  /\ detect = NoDetect
  /\ health = IdleHealth
  /\ healthSummary = NoSummary
  /\ elem = NoElem
  /\ harvests = NoHarvests
  /\ seasonCall = NoSeasonCall
  /\ finishedGW = 0
  /\ detectedSeason = NoSeason
  /\ snapshot = 0
  /\ seasonElements = {}
  /\ seasonBootstrap = 0
  /\ hv = IdleHarvest

InitStore ==
  /\ entryState = [e \in Entries |-> NoState]
  /\ entryBlob = [e \in Entries |-> NoBlob]
  /\ upHist = [e \in Entries |-> {}]
  /\ peo = [w \in Workers |-> IdlePeo]
  /\ rt = IdleRetry
  /\ InitHarvest

InitBreaker ==
  /\ now = 0
  /\ circuitBreaker = [failures |-> 0, openUntil |-> 0]
  /\ fcall = [c \in Callers |-> IdleCall]

\* --- the fetch client alone: concurrent callers of fetchJsonWithRetry
InitFetch == InitBreaker /\ InitStore

NextFetch ==
  \/ \E c \in Callers : fetchEnter(c)
  \/ \E c \in Callers : fetchAttempt(c)
  \/ \E c \in Callers, r \in Responses : fetchRespond(c, r)
  \/ Tick(1)

SpecFetch == InitFetch /\ [][NextFetch]_vars

\* the steps of the invocations in flight
peoStep(w) ==
  \/ \E kvok \in BOOLEAN : peoRead(w, kvok)
  \/ \E kvok \in BOOLEAN : peoReset(w, kvok)
  \/ \E kvok \in BOOLEAN : peoMark(w, kvok)
  \/ \E out \in FetchOutcomes : peoFetch(w, out)
  \/ \E kvok \in BOOLEAN, n \in 0..MaxGW : peoBackfill(w, kvok, n)
  \/ \E kvok \in BOOLEAN : peoPutBlob(w, kvok)
  \/ \E kvok \in BOOLEAN : peoComplete(w, kvok)
  \/ \E kvok \in BOOLEAN : peoCatch(w, kvok)
  \/ peoCrash(w)

retryStep ==
  \/ \E kvok \in BOOLEAN : retryScan(kvok)
  \/ \E kvok \in BOOLEAN : retryRequeue(kvok)
  \/ retryAwait

AllIdle == rt.pc = "idle" /\ \A w \in Workers : peo[w].pc = "idle"

\* --- the sync engine, one invocation at a time: the cron's retry pass, the
\* admin endpoints and the admin-triggered builds never overlap
SeqEntries == {1}

NextEntry ==
  \/ AllIdle /\ \E e \in SeqEntries : ingest(e)
  \/ AllIdle /\ \E e \in SeqEntries : revive(e)
  \/ AllIdle /\ \E e \in SeqEntries : bulkRequeue(e)
  \/ AllIdle /\ \E e \in SeqEntries, g \in GWs : upstreamRow(e, g)
  \/ AllIdle /\ Tick(Hour)
  \/ AllIdle /\ \E e \in SeqEntries : peoCall(1, e)
  \/ AllIdle /\ \E kvok \in BOOLEAN, out \in SeasonOutcomes : retryStart(kvok, out)
  \/ \E w \in Workers : peoStep(w)
  \/ retryStep

SpecEntry == InitFetch /\ [][NextEntry]_vars

\* --- the sync engine with overlapping invocations for entry 1: builds
\* started by the admin endpoints while the cron's retry pass and other
\* builds are in flight. It starts two hours after entry 1 was ingested, with
\* the entry still queued, left errored an hour ago by its second build, or
\* left building by a worker that died; the store and the upstream answer
\* every request.
ConcSeeds ==
  {mkState("queued", 0, 0, 0, -1, ""),
   erroredState("fetch_failed", 2, Hour),
   mkState("building", 0, 1, 0, 0, "")}

InitConc ==
  /\ now = 2 * Hour
  /\ circuitBreaker = [failures |-> 0, openUntil |-> 0]
  /\ fcall = [c \in Callers |-> IdleCall]
  /\ \E st \in ConcSeeds :
        entryState = [e \in Entries |-> IF e = 1 THEN st ELSE NoState]
  /\ entryBlob = [e \in Entries |-> NoBlob]
  /\ upHist = [e \in Entries |-> IF e = 1 THEN {1} ELSE {}]
  /\ peo = [w \in Workers |-> IdlePeo]
  /\ rt = IdleRetry
  /\ InitHarvest

peoStepConc(w) ==
  \/ peoRead(w, TRUE)
  \/ peoReset(w, TRUE)
  \/ peoMark(w, TRUE)
  \/ \E out \in {"throws", "rows"} : peoFetch(w, out)
  \/ peoBackfill(w, TRUE, Len(picksNeeded(entryBlob[peo[w].e], peo[w].gw_summaries, peo[w].targetGW)))
  \/ peoPutBlob(w, TRUE)
  \/ peoComplete(w, TRUE)
  \/ peoCatch(w, TRUE)

NextConc ==
  \/ revive(1)
  \/ \E w \in 1..NumWorkers : peoCall(w, 1)
  \/ \E out \in SeasonOutcomes : retryStart(TRUE, out)
  \/ retryScan(TRUE)
  \/ retryRequeue(TRUE)
  \/ retryAwait
  \/ \E w \in Workers : peoStepConc(w)

SpecConc == InitConc /\ [][NextConc]_vars

\* --- the harvest, one invocation after the other, over a store where the
\* entries 1..NumBuilt were built for gameweek 1 before the first gameweek
\* finished. Builds do not run meanwhile.
InitHarvestEntries ==
  /\ now = 0
  /\ circuitBreaker = [failures |-> 0, openUntil |-> 0]
  /\ fcall = [c \in Callers |-> IdleCall]
  /\ entryBlob = [e \in Entries |->
        IF e <= NumBuilt THEN mkBlob(1, {1}, {1}, 0, 0) ELSE NoBlob]
  /\ entryState = [e \in Entries |->
        IF e <= NumBuilt THEN completeState(1, 1, 0) ELSE NoState]
  /\ upHist = [e \in Entries |-> {1}]
  /\ peo = [w \in Workers |-> IdlePeo]
  /\ rt = IdleRetry
  /\ InitHarvest

\* the outcomes of a request: success or failure when it is made, and
\* nothing to choose when it is not
asked(made) == IF made THEN BOOLEAN ELSE {TRUE}

NextHarvest ==
  \/ \E delay \in BOOLEAN : harvestCall(delay)
  \/ \E out \in SeasonOutcomes : hvSeason(out)
  \/ \E ok \in BOOLEAN : hvBootstrap(ok)
  \/ \E ok \in BOOLEAN : hvElements(ok)
  \/ \E overBudget \in BOOLEAN : hvLaunch(overBudget)
  \/ \E e \in hv.pending :
        \E histOk  \in asked(hv.prevId \notin entryBlob[e].gw_summaries),
           picksOk \in asked(hv.prevId \notin entryBlob[e].picks_by_gw),
           traOk   \in asked(refreshStale(entryBlob[e].transfers_last_refreshed_at,
                                          TransfersStaleMs, now)),
           sumOk   \in asked(refreshStale(entryBlob[e].summary_last_refreshed_at,
                                          SummaryStaleMs, now)) :
          updateEntryForGW(e, histOk, picksOk, traOk, sumOk)
  \/ hvAwait
  \/ hvDrain
  \/ hv.pc = "idle" /\ gwFinishes
  \/ hv.pc = "idle" /\ finishedGW > 0 /\ \E e \in 1..NumBuilt : upstreamRow(e, finishedGW)
  \/ hv.pc = "idle" /\ Tick(Hour)

SpecHarvest == InitHarvestEntries /\ [][NextHarvest]_vars

\* --- the harvest over blobs of every refresh age: each of the entries
\* 1..NumBuilt holds a blob for gameweek 1 whose transfers and profile
\* summary were both refreshed when it was built, or both carry no refresh
\* time
RefreshSeeds == {-1, 0}

InitUpdate ==
  /\ now = 0
  /\ circuitBreaker = [failures |-> 0, openUntil |-> 0]
  /\ fcall = [c \in Callers |-> IdleCall]
  /\ \E at \in [1..NumBuilt -> RefreshSeeds] :
       entryBlob = [e \in Entries |->
          IF e <= NumBuilt THEN mkBlob(1, {1}, {1}, at[e], at[e]) ELSE NoBlob]
  /\ entryState = [e \in Entries |->
        IF e <= NumBuilt THEN completeState(1, 1, 0) ELSE NoState]
  /\ upHist = [e \in Entries |-> {1}]
  /\ peo = [w \in Workers |-> IdlePeo]
  /\ rt = IdleRetry
  /\ InitHarvest

\* passes follow one another at once, each request of an update may fail,
\* and rows appear in the histories between passes
NextUpdate ==
  \/ harvestCall(FALSE)
  \/ hvSeason("null")
  \/ hvBootstrap(TRUE)
  \/ hvElements(TRUE)
  \/ hvLaunch(FALSE)
  \/ \E e \in hv.pending :
        \E histOk  \in asked(hv.prevId \notin entryBlob[e].gw_summaries),
           picksOk \in asked(hv.prevId \notin entryBlob[e].picks_by_gw),
           traOk   \in asked(refreshStale(entryBlob[e].transfers_last_refreshed_at,
                                          TransfersStaleMs, now)),
           sumOk   \in asked(refreshStale(entryBlob[e].summary_last_refreshed_at,
                                          SummaryStaleMs, now)) :
          updateEntryForGW(e, histOk, picksOk, traOk, sumOk)
  \/ hvAwait
  \/ hvDrain
  \/ hv.pc = "idle" /\ gwFinishes
  \/ hv.pc = "idle" /\ finishedGW > 0 /\ \E e \in 1..NumBuilt : upstreamRow(e, finishedGW)

SpecUpdate == InitUpdate /\ [][NextUpdate]_vars

\* --- the harvest, one invocation after the other, over a season in which
\* every entry was built for gameweek 1, so that a pass enumerates more
\* entries than one batch of the fan-out holds
InitFanout ==
  /\ now = 0
  /\ circuitBreaker = [failures |-> 0, openUntil |-> 0]
  /\ fcall = [c \in Callers |-> IdleCall]
  /\ entryBlob = [e \in Entries |-> mkBlob(1, {1}, {1}, 0, 0)]
  /\ entryState = [e \in Entries |-> completeState(1, 1, 0)]
  /\ upHist = [e \in Entries |-> {1}]
  /\ peo = [w \in Workers |-> IdlePeo]
  /\ rt = IdleRetry
  /\ InitHarvest

\* the season cache is not refreshed, the history, transfers and summary
\* requests succeed, and a picks request may exhaust its retries
NextFanout ==
  \/ harvestCall(FALSE)
  \/ hvSeason("null")
  \/ \E ok \in BOOLEAN : hvBootstrap(ok)
  \/ \E ok \in BOOLEAN : hvElements(ok)
  \/ \E overBudget \in BOOLEAN : hvLaunch(overBudget)
  \/ \E e \in hv.pending :
        \E picksOk \in asked(hv.prevId \notin entryBlob[e].picks_by_gw) :
          updateEntryForGW(e, TRUE, picksOk, TRUE, TRUE)
  \/ hvAwait
  \/ hvDrain
  \/ hv.pc = "idle" /\ gwFinishes

SpecFanout == InitFanout /\ [][NextFanout]_vars

\* --- the cron's retry pass over a season with NumEntries state keys, one
\* pass after the other. Each entry starts complete, or errored: after one
\* failed build an hour ago (eligible) or just now (cooling down), or after
\* its third failed build just now (exhausted, inside the cooldown window).
RetrySeeds ==
  {completeState(1, 1, 0),
   erroredState("fetch_failed", 1, 0),
   erroredState("fetch_failed", 1, Hour),
   erroredState("fetch_failed", MAX_RETRY_ATTEMPTS, Hour)}

InitRetry ==
  /\ now = Hour
  /\ circuitBreaker = [failures |-> 0, openUntil |-> 0]
  /\ fcall = [c \in Callers |-> IdleCall]
  /\ entryState \in [Entries -> RetrySeeds]
  /\ entryBlob = [e \in Entries |->
        IF entryState[e].status = "complete"
          THEN mkBlob(1, {1}, {1}, 0, 0) ELSE NoBlob]
  /\ upHist = [e \in Entries |-> {1}]
  /\ peo = [w \in Workers |-> IdlePeo]
  /\ rt = IdleRetry
  /\ InitHarvest

NextRetry ==
  \/ \E kvok \in BOOLEAN, out \in SeasonOutcomes : retryStart(kvok, out)
  \/ \E kvok \in BOOLEAN : retryScan(kvok)
  \/ \E kvok \in BOOLEAN : retryRequeue(kvok)
  \/ retryAwait
  \/ peoRead(0, TRUE)
  \/ peoMark(0, TRUE)
  \/ \E out \in FetchOutcomes : peoFetch(0, out)
  \/ \E n \in 0..MaxGW : peoBackfill(0, TRUE, n)
  \/ peoPutBlob(0, TRUE)
  \/ peoComplete(0, TRUE)
  \/ \E kvok \in BOOLEAN : peoCatch(0, kvok)
  \/ rt.pc = "idle" /\ Tick(Hour)

SpecRetry == InitRetry /\ [][NextRetry]_vars

\* --- the life of an ingested entity while the store answers and no worker
\* dies: ingestion, the first build, the cron's retry passes an hour apart,
\* one invocation at a time. A build succeeds or fails; a failure is caught
\* and stored as errored. The admin endpoints that reset attempts stay out.
NextLifecycle ==
  \/ AllIdle /\ \E e \in SeqEntries : ingest(e)
  \/ AllIdle /\ \E e \in SeqEntries, g \in GWs : upstreamRow(e, g)
  \/ AllIdle /\ Tick(Hour)
  \/ AllIdle /\ \E e \in SeqEntries : peoCall(1, e)
  \/ AllIdle /\ \E out \in SeasonOutcomes : retryStart(TRUE, out)
  \/ retryScan(TRUE)
  \/ retryRequeue(TRUE)
  \/ retryAwait
  \/ \E w \in Workers :
       \/ peoRead(w, TRUE)
       \/ peoMark(w, TRUE)
       \/ \E out \in FetchOutcomes : peoFetch(w, out)
       \/ \E n \in 0..MaxGW : peoBackfill(w, TRUE, n)
       \/ peoPutBlob(w, TRUE)
       \/ peoComplete(w, TRUE)
       \/ peoCatch(w, TRUE)

SpecLifecycle == InitFetch /\ [][NextLifecycle]_vars

\* --- detectLatestFinishedGW alone, applied to every bootstrap response of
\* up to MaxEvents events
InitDetect ==
  /\ InitBreaker
  /\ entryState = [e \in Entries |-> NoState]
  /\ entryBlob = [e \in Entries |-> NoBlob]
  /\ upHist = [e \in Entries |-> {}]
  /\ peo = [w \in Workers |-> IdlePeo]
  /\ rt = IdleRetry
  /\ health = IdleHealth
  /\ healthSummary = NoSummary
  /\ elem = NoElem
  /\ harvests = NoHarvests
  /\ seasonCall = NoSeasonCall
  /\ finishedGW = 0
  /\ detectedSeason = NoSeason
  /\ snapshot = 0
  /\ seasonElements = {}
  /\ seasonBootstrap = 0
  /\ hv = IdleHarvest
  /\ \E b \in Bootstraps : detect = [NoDetect EXCEPT !.bootstrap = b]

NextDetect == detectRun

SpecDetect == InitDetect /\ [][NextDetect]_vars

\* --- getEffectiveSeason alone, called once at any time of the clock, over
\* a cache that is absent or was written for season 2024 at some earlier time
InitSeason ==
  /\ now \in 0..MaxTime
  /\ circuitBreaker = [failures |-> 0, openUntil |-> 0]
  /\ fcall = [c \in Callers |-> IdleCall]
  /\ entryState = [e \in Entries |-> NoState]
  /\ entryBlob = [e \in Entries |-> NoBlob]
  /\ upHist = [e \in Entries |-> {}]
  /\ peo = [w \in Workers |-> IdlePeo]
  /\ rt = IdleRetry
  /\ detect = NoDetect
  /\ health = IdleHealth
  /\ healthSummary = NoSummary
  /\ elem = NoElem
  /\ harvests = NoHarvests
  /\ finishedGW = 0
  /\ snapshot = 0
  /\ seasonElements = {}
  /\ seasonBootstrap = 0
  /\ hv = IdleHarvest
  /\ \/ detectedSeason = NoSeason
     \/ \E d \in 0..now :
          detectedSeason = [exists |-> TRUE, detected_at |-> d, season |-> 2024]
  /\ seasonCall \in SeasonCalls

NextSeason == seasonRun

SpecSeason == InitSeason /\ [][NextSeason]_vars

\* --- the health summary of a season between retry passes, as the cron
\* runs them (worker.js scheduled): one invocation after the other, an hour
\* apart or less. The season holds entries that are queued, left building by
\* a worker that died an hour ago, complete, errored after a first failure
\* an hour ago, or errored after their third failure just now.
HealthSeeds ==
  {NoState,
   mkState("queued", 0, 0, 0, -1, ""),
   mkState("building", 0, 1, 0, 0, ""),
   completeState(1, 1, 0),
   erroredState("fetch_failed", 1, 0),
   erroredState("fetch_failed", MAX_RETRY_ATTEMPTS, Hour)}

InitHealth ==
  /\ now = Hour
  /\ circuitBreaker = [failures |-> 0, openUntil |-> 0]
  /\ fcall = [c \in Callers |-> IdleCall]
  /\ entryState \in [Entries -> HealthSeeds]
  /\ entryBlob = [e \in Entries |->
        IF entryState[e].status = "complete"
          THEN mkBlob(1, {1}, {1}, 0, 0) ELSE NoBlob]
  /\ upHist = [e \in Entries |-> {1}]
  /\ peo = [w \in Workers |-> IdlePeo]
  /\ rt = IdleRetry
  /\ InitHarvest

CronIdle == AllIdle /\ health.pc = "idle" /\ hv.pc = "idle"

NextHealth ==
  \/ CronIdle /\ \E out \in SeasonOutcomes : retryStart(TRUE, out)
  \/ retryScan(TRUE)
  \/ retryRequeue(TRUE)
  \/ retryAwait
  \/ peoRead(0, TRUE)
  \/ peoMark(0, TRUE)
  \/ \E out \in {"throws", "rows"} : peoFetch(0, out)
  \/ peoBackfill(0, TRUE, Len(picksNeeded(entryBlob[peo[0].e], peo[0].gw_summaries, peo[0].targetGW)))
  \/ peoPutBlob(0, TRUE)
  \/ peoComplete(0, TRUE)
  \/ peoCatch(0, TRUE)
  \/ CronIdle /\ \E kvok \in BOOLEAN, out \in SeasonOutcomes : healthStart(kvok, out)
  \/ \E kvok \in BOOLEAN : healthScan(kvok)
  \/ \E kvok \in BOOLEAN : healthPut(kvok)
  \/ CronIdle /\ Tick(Hour)

SpecHealth == InitHealth /\ [][NextHealth]_vars

\* --- builds of entry 1 called one after the other on a state that says
\* building: written at time 0 by a worker that died, or written without a
\* worker_started_at. Time passes a quarter of an hour at a time, the store
\* answers, and a worker may die again.
LockSeeds ==
  {mkState("building", 0, 1, 0, 0, ""),
   mkState("building", 0, 1, 0, -1, "")}

InitLock ==
  /\ now = 0
  /\ circuitBreaker = [failures |-> 0, openUntil |-> 0]
  /\ fcall = [c \in Callers |-> IdleCall]
  /\ \E st \in LockSeeds :
        entryState = [e \in Entries |-> IF e = 1 THEN st ELSE NoState]
  /\ entryBlob = [e \in Entries |-> NoBlob]
  /\ upHist = [e \in Entries |-> IF e = 1 THEN {1} ELSE {}]
  /\ peo = [w \in Workers |-> IdlePeo]
  /\ rt = IdleRetry
  /\ InitHarvest

NextLock ==
  \/ AllIdle /\ Tick(1)
  \/ AllIdle /\ peoCall(1, 1)
  \/ peoStepConc(1)
  \/ peoCrash(1)

SpecLock == InitLock /\ [][NextLock]_vars

\* --- the blob and the state of entry 1 under builds and harvests that
\* never overlap: the entry is ingested, built, requeued and rebuilt while
\* its history grows, gameweeks finish and hours pass; store writes may fail
\* and a worker may die between any two writes of a build. A pass over one
\* entry never fills a batch of the fan-out.
BlobIdle == AllIdle /\ hv.pc = "idle"

NextBlob ==
  \/ BlobIdle /\ ingest(1)
  \/ BlobIdle /\ bulkRequeue(1)
  \/ BlobIdle /\ \E g \in GWs : upstreamRow(1, g)
  \/ BlobIdle /\ gwFinishes
  \/ BlobIdle /\ Tick(Hour)
  \/ BlobIdle /\ peoCall(1, 1)
  \/ peoStep(1)
  \/ BlobIdle /\ harvestCall(FALSE)
  \/ hvSeason("null")
  \/ hvBootstrap(TRUE)
  \/ hvElements(TRUE)
  \/ hvLaunch(FALSE)
  \/ \E e \in hv.pending :
        \E histOk  \in asked(hv.prevId \notin entryBlob[e].gw_summaries),
           picksOk \in asked(hv.prevId \notin entryBlob[e].picks_by_gw) :
          updateEntryForGW(e, histOk, picksOk, TRUE, TRUE)
  \/ hvDrain

SpecBlob == InitFetch /\ [][NextBlob]_vars

\* --- appendElementsForGW alone: any stored document, an existing one
\* holding at least one gameweek, and calls for any gameweek one after the
\* other
InitElements ==
  /\ now = 0
  /\ circuitBreaker = [failures |-> 0, openUntil |-> 0]
  /\ fcall = [c \in Callers |-> IdleCall]
  /\ entryState = [e \in Entries |-> NoState]
  /\ entryBlob = [e \in Entries |-> NoBlob]
  /\ upHist = [e \in Entries |-> {}]
  /\ peo = [w \in Workers |-> IdlePeo]
  /\ rt = IdleRetry
  /\ detect = NoDetect
  /\ health = IdleHealth
  /\ healthSummary = NoSummary
  /\ seasonCall = NoSeasonCall
  /\ finishedGW = 0
  /\ detectedSeason = NoSeason
  /\ snapshot = 0
  /\ seasonElements = {}
  /\ seasonBootstrap = 0
  /\ hv = IdleHarvest
  /\ \E d \in ElementsDocs :
       /\ d.exists => \E g \in GWs : d.gws[g] # 0
       /\ ~d.exists => d = EmptyElements
       /\ elem = [NoElem EXCEPT !.doc = d]
  /\ harvests = NoHarvests

NextElements ==
  \E gw \in GWs, live \in Payloads, fetchOk \in BOOLEAN, putOk \in BOOLEAN :
    elementsRun(gw, live, fetchOk, putOk)

SpecElements == InitElements /\ [][NextElements]_vars

\* --- overlapping invocations of harvestIfNeeded and the snapshot they share
InitSnapshot == InitFetch

NextSnapshot ==
  \/ \E i \in Invocations, delay \in BOOLEAN : hsCall(i, delay)
  \/ \E i \in Invocations, ok \in BOOLEAN : hsBootstrap(i, ok)
  \/ \E i \in Invocations, ok \in BOOLEAN : hsCheck(i, ok)
  \/ \E i \in Invocations, ok \in BOOLEAN : hsWork(i, ok)
  \/ \E i \in Invocations, ok \in BOOLEAN : hsSnapshot(i, ok)
  \/ gwFinishes
  \/ seasonTurns

SpecSnapshot == InitSnapshot /\ [][NextSnapshot]_vars

\* --- the builds of entry 1 right after its ingestion, one at a time: no
\* admin request and no stale lock resets attempts, store writes may fail
\* and the worker may die
NextFrame ==
  \/ AllIdle /\ ingest(1)
  \/ AllIdle /\ \E g \in GWs : upstreamRow(1, g)
  \/ AllIdle /\ peoCall(1, 1)
  \/ \E kvok \in BOOLEAN : peoRead(1, kvok)
  \/ \E kvok \in BOOLEAN : peoMark(1, kvok)
  \/ \E out \in FetchOutcomes : peoFetch(1, out)
  \/ \E kvok \in BOOLEAN, n \in 0..MaxGW : peoBackfill(1, kvok, n)
  \/ \E kvok \in BOOLEAN : peoPutBlob(1, kvok)
  \/ \E kvok \in BOOLEAN : peoComplete(1, kvok)
  \/ \E kvok \in BOOLEAN : peoCatch(1, kvok)
  \/ peoCrash(1)

SpecFrame == InitFetch /\ [][NextFrame]_vars

\* --- the cron alone (worker.js scheduled), cycle after cycle and with no
\* admin request: harvestIfNeeded, retryErroredEntries and
\* updateHealthStateSummary run one after the other, the store answers, and
\* no gameweek has finished yet. An hour ago each entry was left building by
\* a worker that died, made complete, or left errored by its first build.
CronSeeds ==
  {mkState("building", 0, 1, 0, 0, ""),
   completeState(1, 1, 0),
   erroredState("fetch_failed", 1, 0)}

InitCron ==
  /\ now = Hour
  /\ circuitBreaker = [failures |-> 0, openUntil |-> 0]
  /\ fcall = [c \in Callers |-> IdleCall]
  /\ entryState \in [Entries -> CronSeeds]
  /\ entryBlob = [e \in Entries |->
        IF entryState[e].status = "complete"
          THEN mkBlob(1, {1}, {1}, 0, 0) ELSE NoBlob]
  /\ upHist = [e \in Entries |-> {1}]
  /\ peo = [w \in Workers |-> IdlePeo]
  /\ rt = IdleRetry
  /\ InitHarvest

cronHarvest == CronIdle /\ harvestCall(FALSE)
cronRetry == CronIdle /\ \E out \in SeasonOutcomes : retryStart(TRUE, out)
cronHealth == CronIdle /\ \E out \in SeasonOutcomes : healthStart(TRUE, out)
cronSleep == CronIdle /\ Tick(Hour)

\* the steps of the invocation in flight
cronStep ==
  \/ \E out \in SeasonOutcomes : hvSeason(out)
  \/ \E ok \in BOOLEAN : hvBootstrap(ok)
  \/ retryScan(TRUE)
  \/ retryRequeue(TRUE)
  \/ retryAwait
  \/ peoRead(0, TRUE)
  \/ peoMark(0, TRUE)
  \/ \E out \in {"throws", "rows"} : peoFetch(0, out)
  \/ peoBackfill(0, TRUE, Len(picksNeeded(entryBlob[peo[0].e], peo[0].gw_summaries, peo[0].targetGW)))
  \/ peoPutBlob(0, TRUE)
  \/ peoComplete(0, TRUE)
  \/ peoCatch(0, TRUE)
  \/ healthScan(TRUE)
  \/ healthPut(TRUE)

NextCron == cronHarvest \/ cronRetry \/ cronHealth \/ cronSleep \/ cronStep

SpecCron == InitCron /\ [][NextCron]_vars

\* every cycle runs each of the three passes, every pass runs to its end, and
\* the next cycle comes
CronFairness ==
  /\ SF_vars(cronHarvest)
  /\ SF_vars(cronRetry)
  /\ SF_vars(cronHealth)
  /\ SF_vars(cronSleep)
  /\ WF_vars(cronStep)

SpecCronLive == SpecCron /\ CronFairness

\* --- one cron cycle after the other (worker.js scheduled, lines 1951-1966):
\* inside one waitUntil the handler awaits harvestIfNeeded, then
\* retryErroredEntries, then updateHealthStateSummary, each in a try block of
\* its own with an empty catch. Where the handler stands is told by which of
\* the three calls have settled in this cycle; the heartbeat key it puts first
\* is read by none of them. Cycles do not overlap and no admin request runs.

\* a health pass that does not wait for the retry pass of its cycle
scheduledHealthEarly ==
  /\ CronIdle /\ health.res = "none"
  /\ \E kvok \in BOOLEAN, out \in SeasonOutcomes : healthStart(kvok, out)

\* lines 1956-1958: the cycle begins with harvestIfNeeded(env)
scheduledHarvest ==
  /\ CronIdle /\ hv.res = "none" /\ rt.res = "none" /\ health.res = "none"
  /\ harvestCall(FALSE)

\* lines 1959-1961: retryErroredEntries(env), once the harvest has returned
\* or thrown
scheduledRetry ==
  /\ CronIdle /\ hv.res # "none" /\ rt.res = "none" /\ health.res = "none"
  /\ \E kvok \in BOOLEAN, out \in SeasonOutcomes : retryStart(kvok, out)

\* lines 1962-1964: updateHealthStateSummary(env), once the retry pass has
\* returned or thrown
scheduledHealth ==
  /\ CronIdle /\ hv.res # "none" /\ rt.res # "none" /\ health.res = "none"
  /\ \E kvok \in BOOLEAN, out \in SeasonOutcomes : healthStart(kvok, out)

\* the handler has run to its end; an hour later the next event fires
scheduledNext ==
  /\ CronIdle /\ hv.res # "none" /\ rt.res # "none" /\ health.res # "none"
  /\ now + Hour <= MaxTime
  /\ now' = now + Hour
  /\ hv' = IdleHarvest
  /\ rt' = IdleRetry
  /\ health' = IdleHealth
  /\ UNCHANGED <<fetchVars, entryState, entryBlob, upHist, peo, finishedGW, detectedSeason,
                 snapshot, seasonElements, seasonBootstrap, detect, healthSummary,
                 seasonCall, elem, harvests>>

\* the steps of the call in flight; the store may fail the summary's put
scheduledStep ==
  \/ cronStep
  \/ healthPut(FALSE)

NextCycle ==
  \/ scheduledHarvest
  \/ scheduledRetry
  \/ scheduledHealth
  \/ scheduledNext
  \/ scheduledStep

SpecCycle == InitCron /\ [][NextCycle]_vars

\* ================================================================ claims

\* ---------------------------------------------------------------- C1
\* the step belongs to neither processEntryOnce nor the retry pass (it is an
\* admin endpoint, the upstream or the clock): no invocation moves
adminStep == peo' = peo /\ rt' = rt

\* C1 (as claimed): once an entry's state is dead, no step of
\* processEntryOnce or retryErroredEntries writes another status to it, in
\* every interleaving, overlapping invocations for the same entry included;
\* only an explicit revive changes it.
C1_DeadOnlyRevived ==
  [][\A e \in Entries :
       (entryState[e].status = "dead" /\ entryState'[e].status # "dead")
         => adminStep]_vars

\* C1 (amended): a dead state is changed only by an explicit revive, or by
\* the pending write of a processEntryOnce invocation that had read the
\* state before it became dead; an invocation that reads dead writes nothing.
C1_DeadOnlyRevivedOrStaleWrite ==
  [][\A e \in Entries :
       (entryState[e].status = "dead" /\ entryState'[e].status # "dead")
         => \/ adminStep
            \/ \E w \in Workers :
                 /\ peo[w].e = e
                 /\ peo'[w] # peo[w]
                 /\ peo[w].pc \in {"reset", "mark", "complete", "catch"}
                 /\ peo[w].state.status \in {"queued", "building"}]_vars

\* a build called for a dead entry has returned not_queued and left it dead
C1_Witness ==
  \E w \in Workers :
    /\ peo[w].pc = "idle" /\ peo[w].res = "not_queued"
    /\ peo[w].e \in Entries
    /\ entryState[peo[w].e].status = "dead"

\* ---------------------------------------------------------------- C2
\* C2: over non-overlapping processEntryOnce and retryErroredEntries calls
\* with no revive in between, the stored attempts never decreases, and a
\* processEntryOnce call that passes the guard leaves attempts exactly 1
\* higher than the value stored before the call.
C2_AttemptsPlusOne ==
  [][\A e \in Entries :
       ~adminStep =>
         /\ entryState'[e].attempts >= entryState[e].attempts
         /\ \A w \in Workers :
              (peo[w].e = e /\ peo[w].pc \in {"mark", "complete", "catch"}
                 /\ entryState'[e] # entryState[e])
                => entryState'[e].attempts = peo[w].readAttempts + 1]_vars

\* ---------------------------------------------------------------- C3
\* C3: a harvest pass that stopped launching updates at the time budget
\* leaves the remaining entries to a later harvestIfNeeded call: the
\* high-water mark, which makes later calls return noop, is written only when
\* every enumerated entry has been launched.
C3_SnapshotOnlyAfterFullPass ==
  [][snapshot' # snapshot => hv.i > Len(hv.ids)]_vars

\* ---------------------------------------------------------------- C4
\* C4: while the breaker is open (openUntil set and not yet reached) no
\* network attempt is started: neither by a call made while it is open nor
\* as a retry of a call that began while it was closed.
C4_NoAttemptWhileOpen ==
  [][\A c \in Callers :
       (fcall[c].pc = "ready" /\ fcall'[c].pc = "inflight")
         => ~isOpen(circuitBreaker, now)]_vars

\* ---------------------------------------------------------------- C5
\* C5: processEntryOnce never throws: whatever its fetches and its KV calls
\* do, the caller receives a structured result.
C5_NeverThrows == \A w \in Workers : peo[w].res # "threw"

\* ---------------------------------------------------------------- C6
\* the retry pass returns in this step
retryReturns == rt.pc = "scan" /\ rt'.pc = "idle" /\ rt'.res = "returned"

\* the entries the pass re-queued and built itself
retryBatchIds == {retryBatch(rt.retryable)[i].id : i \in 1..Len(retryBatch(rt.retryable))}

\* errored with attempts at or over MAX_RETRY_ATTEMPTS
erroredExhausted(st) == st.status = "errored" /\ st.attempts >= MAX_RETRY_ATTEMPTS

\* C6 (as claimed): every entry that is errored with attempts >=
\* MAX_RETRY_ATTEMPTS when a retry pass starts is dead when the pass returns,
\* whatever its updated_at and however many state keys the season has. (An
\* entry outside the pass's own batch is untouched by its builds, so at the
\* return none of them may still be errored and exhausted.)
C6_ExhaustedAllDead ==
  [][retryReturns =>
       \A e \in Entries \ retryBatchIds : ~erroredExhausted(entryState'[e])]_vars

\* C6 (amended): the same for every entry among the candidates the scan
\* collected before it stopped at its cap; such an entry is made dead at its
\* turn of the scan whatever its updated_at, and is not added to the
\* retryable list from which retried is counted.
C6_ExhaustedCandidatesDead ==
  [][/\ retryReturns =>
          \A e \in SeqSet(rt.candidates) \ retryBatchIds :
             ~erroredExhausted(entryState'[e])
     /\ (rt.pc = "scan" /\ rt'.pc = "scan" /\ rt.k <= Len(rt.candidates)
           /\ erroredExhausted(entryState[rt.candidates[rt.k]]))
          => /\ entryState'[rt.candidates[rt.k]].status = "dead"
             /\ rt'.retryable = rt.retryable
     /\ retryReturns => rt'.retried = Len(retryBatch(rt.retryable))]_vars

\* a pass over a season with more state keys than the scan's cap has
\* returned and has dead-lettered an entry inside its cooldown window
C6_Witness ==
  /\ rt.pc = "idle" /\ rt.res = "returned"
  /\ Len(stateIds(keysFrom(1))) > ScanCap
  /\ \E e \in Entries :
       /\ entryState[e].status = "dead"
       /\ entryState[e].updated_at = now
       /\ entryState[e].attempts >= MAX_RETRY_ATTEMPTS

\* ---------------------------------------------------------------- C7
\* C7: last_gw_processed never decreases, neither in the EntryState nor in
\* the blob, across the steps of processEntryOnce and retryErroredEntries.
C7_LastGwMonotone ==
  [][\A e \in Entries :
       ~adminStep =>
         /\ entryState'[e].last_gw_processed >= entryState[e].last_gw_processed
         /\ entryBlob'[e].last_gw_processed >= entryBlob[e].last_gw_processed]_vars

\* ---------------------------------------------------------------- C8
\* C8: in every stored blob the keys of picks_by_gw are a subset of the keys
\* of gw_summaries.
C8_PicksWithinSummaries ==
  \A e \in Entries :
    entryBlob[e].exists => entryBlob[e].picks_by_gw \subseteq entryBlob[e].gw_summaries

\* ---------------------------------------------------------------- C9
\* C9 (as claimed): a harvestIfNeeded call that returns noop or delayed has
\* put no KV key at all, whatever the store held when it was called.
C9_NoopWritesNothing ==
  hv.res \in {"noop", "delayed"} => hv.wrote = {}

\* C9 (amended): a harvestIfNeeded call that returns noop or delayed has put
\* no KV key other than the detected-season cache, and has put nothing at
\* all when that cache was less than an hour old at the call.
C9_NoopWritesOnlySeasonCache ==
  [][(hv.pc = "bootstrap" /\ hv'.res \in {"noop", "delayed"}) =>
       /\ hv'.wrote \subseteq {"detected_season"}
       /\ (hv.cachedAge >= 0 /\ hv.cachedAge < Hour) => hv'.wrote = {}]_vars

\* a call made with a season cache over an hour old has returned noop,
\* already up to date, having refreshed the cache
C9_Witness ==
  /\ hv.pc = "idle" /\ hv.res = "noop" /\ hv.reason = "already_up_to_date"
  /\ hv.wrote = {"detected_season"}

\* ---------------------------------------------------------------- C10
\* the backfill step of worker w: the existing blob is read and the picks
\* requests are issued
backfillStep(w) == peo[w].pc = "backfill" /\ peo'[w].pc # "backfill"

\* C10 (as claimed): with a stored blob whose last_gw_processed is N, a run
\* whose history yields targetGW = N issues no picks request.
C10_NoPicksFetchAtTarget ==
  [][\A w \in Workers :
       (backfillStep(w) /\ entryBlob[peo[w].e].exists
          /\ entryBlob[peo[w].e].last_gw_processed = peo[w].targetGW
          /\ peo'[w].err # "kv_failed")
         => peo'[w].picksReq = {}]_vars

\* C10 (amended): such a run requests picks only for gameweeks up to N that
\* have a row in the fetched history and no picks in the blob -- none when
\* the blob holds picks for every gameweek of the history.
C10_PicksFetchOnlyForGaps ==
  [][\A w \in Workers :
       (backfillStep(w) /\ entryBlob[peo[w].e].exists
          /\ entryBlob[peo[w].e].last_gw_processed = peo[w].targetGW)
         => /\ peo'[w].picksReq \subseteq
                 (peo[w].gw_summaries \ entryBlob[peo[w].e].picks_by_gw)
            /\ \A g \in peo'[w].picksReq : g <= peo[w].targetGW
            /\ (peo'[w].pc = "putblob" =>
                  peo'[w].picksReq =
                    peo[w].gw_summaries \ entryBlob[peo[w].e].picks_by_gw)]_vars

\* a run targeting the blob's own last_gw_processed has done its backfill
\* without a picks request
C10_Witness ==
  \E w \in Workers :
    /\ peo[w].pc = "putblob" /\ peo[w].picksReq = {}
    /\ entryBlob[peo[w].e].exists
    /\ entryBlob[peo[w].e].last_gw_processed = peo[w].targetGW

\* ---------------------------------------------------------------- C11
\* C11: a processEntryOnce run that finds an existing blob and gets every
\* picks request answered keeps every picks_by_gw key of that blob without
\* requesting it again, and requests picks for gameweek g exactly when
\* 1 <= g <= targetGW, g is in the freshly computed gw_summaries and g is not
\* in the blob's picks_by_gw, the gaps below startGW included.
C11_BackfillExactlyMissing ==
  [][\A w \in Workers :
       (backfillStep(w) /\ peo'[w].pc = "putblob" /\ entryBlob[peo[w].e].exists)
         => LET old == entryBlob[peo[w].e].picks_by_gw
            IN  /\ peo'[w].picksReq =
                     {g \in 1..peo[w].targetGW :
                        g \in peo[w].gw_summaries /\ g \notin old}
                /\ peo'[w].picks_by_gw = old \cup peo'[w].picksReq]_vars

\* a run over an existing blob has kept the picks it found and requested
\* those of a gap below the blob's last_gw_processed
C11_Witness ==
  \E w \in Workers :
    /\ peo[w].pc = "putblob"
    /\ entryBlob[peo[w].e].exists
    /\ entryBlob[peo[w].e].picks_by_gw # {}
    /\ entryBlob[peo[w].e].picks_by_gw \subseteq peo[w].picks_by_gw
    /\ \E g \in peo[w].picksReq : g < entryBlob[peo[w].e].last_gw_processed

\* ---------------------------------------------------------------- C12
\* caller c's attempt has failed in this step with response r
attemptFailed(c, r) ==
  /\ fcall[c].pc = "inflight"
  /\ fcall'[c].pc # "inflight"
  /\ fcall'[c].res # "ok"
  /\ fcall'[c].lastErr = r

\* C12: an attempt of fetchJsonWithRetry that fails with a status other than
\* 404, 429 and 503 (HTTP 500) records exactly one failure on the circuit
\* breaker, so that 500, 500, 200 records two.
C12_OneFailurePer500 ==
  [][\A c \in Callers :
       attemptFailed(c, "500")
         => circuitBreaker'.failures = circuitBreaker.failures + 1]_vars

\* ---------------------------------------------------------------- C13
\* C13: an attempt of fetchJsonWithRetry that is answered HTTP 404 leaves
\* circuitBreaker.failures as it was, so that a call answered only 404s ends
\* in an error with failures equal to its value before the call.
C13_NoFailureOn404 ==
  [][\A c \in Callers :
       attemptFailed(c, "404")
         => circuitBreaker'.failures = circuitBreaker.failures]_vars

\* ---------------------------------------------------------------- C14
\* C14: the breaker opens only by a failure that brings failures to
\* maxFailures or more, and such a failure leaves it open; while fewer have
\* been recorded on a closed breaker it stays closed; once open it stays open
\* until openUntil is reached; and the first isOpen() call at or after
\* openUntil returns false and sets failures and openUntil to 0.
C14_BreakerLifecycle ==
  [][/\ (circuitBreaker.openUntil = 0 /\ circuitBreaker'.openUntil > 0)
          => circuitBreaker'.failures >= maxFailures
     /\ (circuitBreaker'.failures > circuitBreaker.failures
           /\ circuitBreaker'.failures >= maxFailures)
          => isOpen(circuitBreaker', now')
     /\ (circuitBreaker.openUntil = 0 /\ circuitBreaker'.failures < maxFailures)
          => ~isOpen(circuitBreaker', now')
     /\ (isOpen(circuitBreaker, now) /\ now' < circuitBreaker.openUntil)
          => isOpen(circuitBreaker', now')
     /\ \A c \in Callers :
          (fcall[c].pc = "idle" /\ fcall'[c] # fcall[c]
             /\ circuitBreaker.openUntil > 0 /\ now >= circuitBreaker.openUntil)
            => /\ fcall'[c].pc = "ready"
               /\ circuitBreaker' = [failures |-> 0, openUntil |-> 0]]_vars

\* the breaker is open after maxFailures failures and a call has been refused
C14_Witness ==
  /\ isOpen(circuitBreaker, now)
  /\ circuitBreaker.failures >= maxFailures
  /\ \E c \in Callers : fcall[c].res = "circuit_open"

\* ---------------------------------------------------------------- C15
\* this step starts a build of e: processEntryOnce marks it building
buildStarts(e) ==
  entryState'[e].status = "building" /\ entryState'[e] # entryState[e]

\* this step is the retry pass re-queueing an entry and calling
\* processEntryOnce for it
retryRuns == rt.pc = "scan" /\ rt'.pc = "await"

\* this step is the normal return of the retry pass
passReturns == rt.pc = "scan" /\ rt'.res = "returned"

batchOf(r) == retryBatch(r.retryable)

\* C16: the retry pass re-queues an eligible entity with the attempts it
\* scanned and runs processEntryOnce for it at once; when the pass returns,
\* every entity of its batch is complete or errored with attempts one more
\* than scanned, none is queued or building, and succeeded counts the
\* complete ones.
C16_RequeuedThenBuilt ==
  [][/\ retryRuns
          => LET it == batchOf(rt)[rt'.b]
             IN  /\ peo'[0].pc = "read" /\ peo'[0].e = it.id
                 /\ entryState[it.id].attempts = it.attempts
                 /\ entryState'[it.id].status = "queued"
                 /\ entryState'[it.id].attempts = it.attempts
     /\ passReturns
          => /\ \A i \in 1..Len(batchOf(rt)) :
                  LET it == batchOf(rt)[i]
                  IN  /\ entryState[it.id].status \in {"complete", "errored"}
                      /\ entryState[it.id].attempts = it.attempts + 1
             /\ rt'.succeeded =
                  Cardinality({i \in 1..Len(batchOf(rt)) :
                                 entryState[batchOf(rt)[i].id].status = "complete"})]_vars

\* a pass has returned after building an entity that completed, and a pass
\* before it has built one that failed again
C16_Witness ==
  /\ rt.res = "returned" /\ rt.retried = 1 /\ rt.succeeded = 1
  /\ \E e1, e2 \in Entries :
       /\ entryState[e1].status = "complete" /\ entryState[e1].attempts = 2
       /\ entryState[e1].updated_at = now
       /\ entryState[e2].status = "errored" /\ entryState[e2].attempts = 2
       /\ entryState[e2].updated_at = now

\* ---------------------------------------------------------------- C17
\* this step is the scan loop going past candidate rt.k
scanStep == rt.pc = "scan" /\ rt'.pc = "scan" /\ rt'.k = rt.k + 1

\* the stored state is errored, below the attempts limit and past its
\* cooldown at time t
eligibleAt(st, t) ==
  /\ st.status = "errored"
  /\ st.attempts < MAX_RETRY_ATTEMPTS
  /\ t - st.updated_at >= Hour

\* C17: a pass of retryErroredEntries runs processEntryOnce for at most
\* RetryBatchCap entities (5 in the code); the scan adds a candidate to the
\* eligible ones exactly when it is errored with attempts < 3 and its
\* cooldown has elapsed, and nothing else changes their number; the result
\* has eligible = that number, retried = min(cap, eligible) and
\* succeeded <= retried.
C17_CapAndCounts ==
  [][/\ scanStep
          => Len(rt'.retryable) = Len(rt.retryable) +
               (IF eligibleAt(entryState[rt.candidates[rt.k]], now) THEN 1 ELSE 0)
     /\ (rt.pc \in {"scan", "await"} /\ rt'.pc \in {"scan", "await"} /\ ~scanStep)
          => rt'.retryable = rt.retryable
     /\ retryRuns => rt'.b <= RetryBatchCap
     /\ (peo[0].pc = "idle" /\ peo'[0].pc # "idle") => retryRuns
     /\ passReturns
          => /\ rt'.eligible = Len(rt.retryable)
             /\ rt'.retried = Min2(RetryBatchCap, rt'.eligible)
             /\ rt'.retried = rt.b
             /\ rt'.succeeded <= rt'.retried]_vars

\* a pass has returned with more eligible entities than it has built
C17_Witness ==
  /\ rt.res = "returned"
  /\ rt.eligible > RetryBatchCap
  /\ rt.retried = RetryBatchCap

\* ---------------------------------------------------------------- C18
\* the retry pass has to leave this stored state alone: it is not errored,
\* or it is errored below the attempts limit and inside its cooldown
skippedAt(st, t) ==
  \/ st.status # "errored"
  \/ st.attempts < MAX_RETRY_ATTEMPTS /\ t - st.updated_at < Hour

\* C18: the scan of retryErroredEntries goes past a candidate that is not
\* errored, or that is errored with attempts < 3 and less than an hour old,
\* without writing any EntryState and without counting it as eligible; and
\* the only states a pass writes are those of errored entities at the
\* attempts limit (dead-lettered by the scan) and of the entities it counted
\* as eligible.
C18_SkippedUntouched ==
  [][/\ (scanStep /\ skippedAt(entryState[rt.candidates[rt.k]], now))
          => /\ entryState' = entryState
             /\ rt'.retryable = rt.retryable
             /\ rt'.deadLettered = rt.deadLettered
     /\ \A e \in Entries :
          entryState'[e] # entryState[e]
            => \/ /\ scanStep /\ rt.candidates[rt.k] = e
                  /\ entryState[e].status = "errored"
                  /\ entryState[e].attempts >= MAX_RETRY_ATTEMPTS
               \/ /\ rt.pc \in {"scan", "await"}
                  /\ \E i \in 1..Len(rt.retryable) : rt.retryable[i].id = e]_vars

\* a pass has scanned a cooling-down errored entity and a complete one and
\* has returned with nothing eligible, both states as they were
C18_Witness ==
  /\ rt.res = "returned" /\ rt.eligible = 0 /\ rt.retried = 0
  /\ now = Hour
  /\ entryState[1] = erroredState("fetch_failed", 1, Hour)
  /\ entryState[2] = completeState(1, 1, 0)

\* ---------------------------------------------------------------- C19
\* worker w is at its read of the state of an entity that has none, or that
\* is complete, errored or dead
readsSettled(w) ==
  /\ peo[w].pc = "read"
  /\ peo'[w] # peo[w]
  /\ entryState[peo[w].e].status \in {"none", "complete", "errored", "dead"}

\* C19: processEntryOnce called for an entity with no EntryState, or whose
\* status is complete, errored or dead, ends at the guard: it returns
\* not_queued (unless the store rejects the read of the state itself, which
\* throws), it writes neither an EntryState nor a blob, and it never gets to
\* the upstream requests.
C19_NotQueuedNoEffects ==
  [][\A w \in Workers :
       readsSettled(w)
         => /\ peo'[w].pc = "idle"
            /\ peo'[w].res \in {"not_queued", "threw"}
            /\ peo'[w].e = peo[w].e
            /\ peo'[w].picksReq = {}
            /\ entryState' = entryState
            /\ entryBlob' = entryBlob
            /\ fetchVars' = fetchVars]_vars

\* processEntryOnce has returned not_queued for a dead entity
C19_Witness ==
  \E w \in Workers :
    /\ peo[w].pc = "idle" /\ peo[w].res = "not_queued"
    /\ peo[w].e \in Entries
    /\ entryState[peo[w].e].status = "dead"

\* ---------------------------------------------------------------- C20
\* C20: a build of an entity whose history has rows, with T the largest
\* event id, takes one gw_summaries entry per row and targetGW = T from the
\* history; it ends in the catch block only when a request or the store
\* fails or the rows carry no usable event id; and when it returns ok,
\* targetGW is T, the blob it has written has last_gw_processed = T, the
\* gw_summaries of the rows and picks_by_gw for each of those gameweeks in
\* 1..T, and the EntryState is complete with last_gw_processed = T.
C20_BuildToTarget ==
  [][\A w \in Workers :
       LET e == peo[w].e
       IN  /\ (peo[w].pc = "fetch" /\ peo'[w].pc = "backfill")
                => /\ upHist[e] # {}
                   /\ peo'[w].gw_summaries = upHist[e]
                   /\ peo'[w].targetGW = Max(upHist[e])
                   /\ peo'[w].targetGW > 0
           /\ (peo[w].pc # "catch" /\ peo'[w].pc = "catch")
                => /\ peo'[w].err \in {"fetch_failed", "kv_failed",
                                       "no_target_gw", "empty_history"}
                   /\ peo'[w].err = "empty_history" => upHist[e] = {}
           /\ (peo[w].pc = "complete" /\ peo'[w].pc = "idle" /\ peo'[w].res = "ok")
                => /\ upHist[e] # {}
                   /\ peo[w].targetGW = Max(upHist[e])
                   /\ entryBlob'[e].exists
                   /\ entryBlob'[e].last_gw_processed = Max(upHist[e])
                   /\ entryBlob'[e].gw_summaries = upHist[e]
                   /\ \A g \in upHist[e] :
                        g \in 1..Max(upHist[e]) => g \in entryBlob'[e].picks_by_gw
                   /\ entryState'[e].status = "complete"
                   /\ entryState'[e].last_gw_processed = Max(upHist[e])]_vars

\* a build has returned ok for an entity with history rows for gameweeks 1
\* and 2
C20_Witness ==
  \E w \in Workers :
    /\ peo[w].pc = "idle" /\ peo[w].res = "ok"
    /\ peo[w].e \in Entries
    /\ upHist[peo[w].e] = {1, 2}
    /\ entryState[peo[w].e].status = "complete"
    /\ entryState[peo[w].e].last_gw_processed = 2
    /\ entryBlob[peo[w].e].last_gw_processed = 2
    /\ entryBlob[peo[w].e].picks_by_gw = {1, 2}

\* ---------------------------------------------------------------- C21
\* the indices of the events that are finished and data-checked
doneEvents(b) ==
  {i \in 1..Len(b.events) :
     b.events[i].finished = "true" /\ b.events[i].data_checked = "true"}

\* C21: detectLatestFinishedGW returns null when no event of the bootstrap
\* is both finished and data-checked (a null bootstrap and one without an
\* events list included), returns the largest id among such events when
\* they have ids, and every number it returns is the id of an event that is
\* finished and data-checked.
C21_LatestFinishedChecked ==
  detect.result.kind # "unset"
    => LET b    == detect.bootstrap
           done == doneEvents(b)
           ids  == {b.events[i].id : i \in {j \in done : b.events[j].hasId}}
       IN  /\ done = {} => detect.result = NullGW
           /\ b.kind # "events" => detect.result = NullGW
           /\ ids # {} => detect.result = NumberGW(Max(ids))
           /\ detect.result.kind = "number"
                => \E i \in done : b.events[i].hasId /\ b.events[i].id = detect.result.n

\* a number has been returned while a later event is finished and not yet
\* data-checked
C21_Witness ==
  /\ detect.result.kind = "number"
  /\ \E i \in 1..Len(detect.bootstrap.events) :
       /\ detect.bootstrap.events[i].finished = "true"
       /\ detect.bootstrap.events[i].data_checked # "true"
       /\ detect.bootstrap.events[i].hasId
       /\ detect.bootstrap.events[i].id > detect.result.n

\* ---------------------------------------------------------------- C22
\* caller c's attempt is answered 2xx with a body that parses: the step
\* calls recordSuccess() and nothing else on the breaker
attemptSucceeded(c) ==
  fcall[c].pc = "inflight" /\ fcall'[c].pc = "idle" /\ fcall'[c].res = "ok"

\* C22: circuitBreaker.failures is never negative; a recordSuccess() call
\* lowers it by exactly 1 when it is positive, leaves it at 0 otherwise, and
\* leaves openUntil as it was.
C22_SuccessDecrements ==
  /\ circuitBreaker.failures >= 0
  /\ [][/\ circuitBreaker'.failures >= 0
        /\ \A c \in Callers :
             attemptSucceeded(c)
               => /\ circuitBreaker'.failures =
                       (IF circuitBreaker.failures > 0
                          THEN circuitBreaker.failures - 1 ELSE 0)
                  /\ circuitBreaker'.openUntil = circuitBreaker.openUntil]_vars

\* a success has been recorded on an open breaker: one failure less, and
\* still open
C22_Witness ==
  /\ \E c \in Callers : fcall[c].res = "ok"
  /\ circuitBreaker.failures = maxFailures - 1
  /\ circuitBreaker.openUntil > 0

\* ---------------------------------------------------------------- C23
\* C23: getEffectiveSeason returns the cached season, fetching nothing and
\* leaving the cache alone, when the cache entry is less than an hour old;
\* otherwise it returns the season derived from the bootstrap's first
\* deadline (the year the season starts in) and caches it with the time of
\* the call; and when the detection fails it returns env.SEASON, or 2025
\* when that is unset, and leaves the cache as it was.
C23_EffectiveSeason ==
  [][(~seasonCall.done /\ seasonCall'.done)
       => LET c     == detectedSeason
              fresh == c.exists /\ now - c.detected_at < Hour
              resp  == seasonCall.resp
              found == resp.kind = "deadline" /\ seasonCall.putok
              year  == IF resp.month >= 7 THEN resp.year ELSE resp.year - 1
          IN  /\ fresh
                   => /\ seasonCall'.season = c.season
                      /\ ~seasonCall'.fetched
                      /\ detectedSeason' = c
              /\ (~fresh /\ found)
                   => /\ seasonCall'.season = year
                      /\ seasonCall'.fetched
                      /\ detectedSeason' =
                           [exists |-> TRUE, detected_at |-> now, season |-> year]
              /\ (~fresh /\ ~found)
                   => /\ seasonCall'.season =
                           (IF seasonCall.env # 0 THEN seasonCall.env ELSE DefaultSeason)
                      /\ detectedSeason' = c]_vars

\* a call has found the cache of season 2024 stale and has returned and
\* cached the season of a first deadline in August 2025
C23_Witness ==
  /\ seasonCall.done /\ seasonCall.fetched
  /\ seasonCall.season = 2025
  /\ seasonCall.resp = [kind |-> "deadline", year |-> 2025, month |-> 7]
  /\ detectedSeason = [exists |-> TRUE, detected_at |-> now, season |-> 2025]
  /\ now >= Hour

\* ---------------------------------------------------------------- C24
\* the number of entries whose stored status is st
entriesWith(st) == Cardinality({e \in Entries : entryState[e].status = st})

\* this step is updateHealthStateSummary putting its summary and returning
healthReturns == health.pc = "scan" /\ health'.res = "returned"

\* C24: the summary updateHealthStateSummary persists and returns holds, for
\* each of queued, building, complete, errored and dead, the number of
\* EntryState records with that status, and a total equal to the sum of the
\* five, which is the number of EntryState records.
C24_HealthCounts ==
  [][healthReturns
       => /\ healthSummary'.exists
          /\ \A st \in Statuses : healthSummary'.counts[st] = entriesWith(st)
          /\ healthSummary'.total =
               Cardinality({e \in Entries : entryState[e].status \in Statuses})
          /\ healthSummary'.total =
               entriesWith("queued") + entriesWith("building") + entriesWith("complete")
                 + entriesWith("errored") + entriesWith("dead")
          /\ health'.counts = healthSummary'.counts]_vars

\* a summary has been stored that counts a dead, a building and a complete
\* entity
C24_Witness ==
  /\ health.res = "returned"
  /\ healthSummary.exists
  /\ healthSummary.counts["dead"] = 1
  /\ healthSummary.counts["building"] = 1
  /\ healthSummary.counts["complete"] = 1
  /\ healthSummary.total = 3

\* ---------------------------------------------------------------- C25
\* this step is invocation w, past the guard, returning a result
returnsPastGuard(w) ==
  /\ peo[w].pc \in {"fetch", "backfill", "putblob", "complete", "catch"}
  /\ peo'[w].pc = "idle"
  /\ peo'[w].res \in {"ok", "error"}

\* C25: a processEntryOnce call that passed the guard and returns leaves the
\* entity complete exactly when it returns ok, and errored with the error
\* message and the incremented attempts exactly when it returns not ok,
\* whatever failed (a fetch that threw, empty_history, no_target_gw, a store
\* write); it never returns with the state still building.
C25_ReturnSettlesState ==
  [][\A w \in Workers :
       returnsPastGuard(w)
         => LET st == entryState'[peo[w].e]
            IN  /\ st.status \in {"complete", "errored"}
                /\ (st.status = "complete") = (peo'[w].res = "ok")
                /\ (st.status = "errored") = (peo'[w].res = "error")
                /\ st.attempts = peo[w].state.attempts + 1
                /\ st.worker_started_at = -1
                /\ peo'[w].res = "error"
                     => /\ st.error = peo[w].err
                        /\ st.error \in {"fetch_failed", "empty_history",
                                         "no_target_gw", "kv_failed"}]_vars

\* a second build of entry 1 has returned not ok for a history without a
\* usable event, and the state is errored with that message and attempts 2
C25_Witness ==
  /\ peo[1].pc = "idle"
  /\ peo[1].res = "error"
  /\ entryState[1].status = "errored"
  /\ entryState[1].error = "no_target_gw"
  /\ entryState[1].attempts = 2

\* ---------------------------------------------------------------- C26
\* C26: under the cron cycle alone, an entity whose building lock has become
\* older than 60 minutes is eventually moved out of building.
C26_StaleLockRecovered ==
  \A e \in Entries :
    isStale(entryState[e], now) ~> (entryState[e].status # "building")

\* ---------------------------------------------------------------- C27
\* the age of the lock of state st at time t is at most 60 minutes
freshLock(st, t) ==
  /\ st.status = "building"
  /\ st.worker_started_at >= 0
  /\ t - st.worker_started_at <= Hour

\* C27: processEntryOnce resets a building entity to queued only when its
\* worker_started_at is more than 60 minutes old or missing; on a lock of 60
\* minutes or less it resets nothing, passes the guard and, unless the
\* worker dies, marks building over the lock and builds.
C27_FreshLockDoesNotStop ==
  [][\A w \in Workers :
       peo[w].pc # "idle" =>
       LET e == peo[w].e
           st == entryState[e]
       IN  /\ (st.status = "building" /\ entryState'[e].status = "queued")
                => /\ peo[w].pc = "reset"
                   /\ ~freshLock(peo[w].state, now)
                   /\ ~freshLock(st, now)
           /\ (peo[w].pc = "read" /\ freshLock(st, now))
                => /\ peo'[w].pc = "mark"
                   /\ peo'[w].state = st
                   /\ entryState' = entryState
           /\ (peo[w].pc = "read" /\ st.status = "building" /\ ~freshLock(st, now))
                => /\ peo'[w].pc = "reset"
                   /\ entryState' = entryState
           /\ (peo[w].pc = "mark" /\ peo[w].state.status = "building")
                => /\ freshLock(peo[w].state, now)
                   /\ peo'[w].res # "crashed"
                        => /\ entryState'[e].status = "building"
                           /\ entryState'[e].attempts = peo[w].state.attempts + 1
                           /\ entryState'[e].worker_started_at = peo[w].nowIso
                           /\ peo'[w].pc = "fetch"]_vars

\* within the hour after the first worker died, a second call has built the
\* entity on top of the first worker's lock: complete, attempts 2
C27_Witness ==
  /\ now = Hour
  /\ peo[1].res = "ok"
  /\ entryState[1].status = "complete"
  /\ entryState[1].attempts = 2

\* ---------------------------------------------------------------- C28
\* C28: a harvest pass in which a per-entity update failed goes on with the
\* remaining enumerated entities: when it ends at the wait for a batch, every
\* enumerated entity has been launched.
C28_HarvestContinuesAfterFailure ==
  [][(hv.pc = "await" /\ hv'.pc = "idle") => hv.i > Len(hv.ids)]_vars

\* ---------------------------------------------------------------- C29
\* the entries whose update this pass has launched
launched == {hv.ids[k] : k \in 1..(hv.i - 1)}

\* C29: harvestIfNeeded writes SnapshotCurrent only as its last step, to the
\* gameweek it harvested, once every update it launched has settled and none
\* has thrown (each launched entry with a blob then holds that gameweek's
\* picks); a call that ends by throwing, because an update threw or because
\* the bootstrap or the live stats could not be stored, leaves
\* SnapshotCurrent as it was, below that gameweek.
C29_SnapshotAfterLaunchedSettle ==
  [][/\ snapshot' # snapshot
          => /\ hv.pc = "drain"
             /\ hv.pending = {}
             /\ ~hv.failed
             /\ hv'.pc = "idle" /\ hv'.res = "ok"
             /\ snapshot' = hv.prevId
             /\ \A e \in launched :
                  entryBlob[e].exists => hv.prevId \in entryBlob[e].picks_by_gw
     /\ (hv.pc # "idle" /\ hv'.res = "threw")
          => /\ snapshot' = snapshot
             /\ hv.pc \in {"elements", "await", "drain"} => snapshot' < hv.prevId]_vars

\* a pass for gameweek 2 has returned ok after launching every entry, and the
\* snapshot says 2
C29_Witness ==
  /\ hv.pc = "idle"
  /\ hv.res = "ok"
  /\ snapshot = 2
  /\ \A e \in Entries : 2 \in entryBlob[e].picks_by_gw

\* ---------------------------------------------------------------- C30
\* this step is the elapsed-time check tripping with entries left to launch
budgetTrips == hv.pc = "fan" /\ hv'.pc = "drain" /\ hv.i <= Len(hv.ids)

C31_SlidingWindow ==
  ~ /\ hv.pc = "await"
    /\ Cardinality(hv.pending) < HarvestConcurrency
    /\ hv.i <= Len(hv.ids)
    /\ ~hv.failed

\* ---------------------------------------------------------------- C32
\* C32: whenever the breaker is open (openUntil set and not yet reached) its
\* failures are at least maxFailures; with fewer failures it is closed.
C32_OpenMeansMaxFailures ==
  (circuitBreaker.openUntil > 0 /\ now < circuitBreaker.openUntil)
    => circuitBreaker.failures >= maxFailures

updateRuns(e) ==
  /\ hv.pc \in {"await", "drain"}
  /\ e \in hv.pending
  /\ e \notin hv'.pending
  /\ hv'.pc = hv.pc

\* the timestamp at is present and at most window old
withinWindow(at, window) == at >= 0 /\ now - at <= window

\* the blob of e is as a run of updateEntryForGW for gameweek gw leaves it:
\* the picks are there, the summary is there unless the history has no row
\* for gw, and the transfers and the profile summary are within their windows
alreadyUpdated(e, gw) ==
  /\ entryBlob[e].exists
  /\ gw \in entryBlob[e].picks_by_gw
  /\ gw \in entryBlob[e].gw_summaries \/ gw \notin upHist[e]
  /\ withinWindow(entryBlob[e].transfers_last_refreshed_at, 6 * Hour)
  /\ withinWindow(entryBlob[e].summary_last_refreshed_at, 12 * Hour)

\* C34: updateEntryForGW is idempotent. A run that does not throw leaves the
\* gameweek's picks in the blob, and its summary too when the history has
\* the row; a run on a blob that is already so, with transfers and profile
\* summary within their windows, puts nothing and leaves the blob as it is;
\* and a run can only throw when the gameweek's summary or picks are absent
\* from the blob, those being the only requests outside a try.
C34_UpdateIdempotent ==
  [][\A e \in Entries :
       updateRuns(e) =>
         LET gw == hv.prevId
         IN  /\ alreadyUpdated(e, gw)
                  => /\ entryBlob' = entryBlob
                     /\ hv'.wrote = hv.wrote
             /\ (entryBlob[e].exists /\ ~hv'.failed)
                  => /\ gw \in entryBlob'[e].picks_by_gw
                     /\ gw \in entryBlob'[e].gw_summaries \/ gw \notin upHist[e]
                     /\ entryBlob'[e].last_gw_processed >= gw
             /\ (hv'.failed /\ ~hv.failed)
                  => \/ gw \notin entryBlob[e].gw_summaries
                     \/ gw \notin entryBlob[e].picks_by_gw]_vars

\* a pass for gameweek 2 has rerun the update of entry 1, whose blob an
\* earlier pass had brought to gameweek 2, and has put nothing
C34_Witness ==
  /\ hv.pc \in {"await", "drain"}
  /\ hv.prevId = 2
  /\ hv.i > 1
  /\ hv.ids[1] = 1
  /\ 1 \notin hv.pending
  /\ ~hv.failed
  /\ "blob" \notin hv.wrote
  /\ 2 \in entryBlob[1].picks_by_gw
  /\ 2 \in entryBlob[1].gw_summaries

\* ---------------------------------------------------------------- C35
\* C35: appendElementsForGW never removes or replaces an entry the document
\* already holds and never lowers its last_gw_processed; called for a
\* gameweek the document holds, it neither fetches nor puts and returns
\* already_present; otherwise it fetches, and when it puts, the new entry is
\* the fetched payload.
C35_ElementsAppendOnly ==
  [][elem' # elem =>
       LET d == elem.doc
           g == elem'.gw
       IN  /\ \A k \in GWs : d.gws[k] # 0 => elem'.doc.gws[k] = d.gws[k]
           /\ elem'.doc.last_gw_processed >= d.last_gw_processed
           /\ d.exists => elem'.doc.exists
           /\ d.gws[g] # 0
                => /\ elem'.res = "already_present"
                   /\ ~elem'.fetched /\ ~elem'.wrote
                   /\ elem'.doc = d
           /\ d.gws[g] = 0
                => /\ elem'.fetched
                   /\ elem'.res \in {"wrote", "threw"}
                   /\ elem'.wrote = (elem'.res = "wrote")
                   /\ elem'.wrote => (elem'.doc.gws[g] = elem'.live
                                      /\ elem'.doc.last_gw_processed >= g)
                   /\ ~elem'.wrote => elem'.doc = d]_vars

\* a call for gameweek 1 on a document that holds payload 1 for it and has
\* last_gw_processed 2 has returned already_present
C35_Witness ==
  /\ elem.res = "already_present"
  /\ elem.gw = 1
  /\ elem.doc.gws[1] = 1
  /\ elem.doc.last_gw_processed = 2

\* ---------------------------------------------------------------- C36
\* C36: from the moment the breaker opens until isOpen() resets it, openUntil
\* is not moved later: no step of a call, rejected or already in progress
\* when the breaker opened, extends the open period, so the first call at or
\* after that openUntil finds the breaker closed.
C36_OpenUntilNeverExtended ==
  [][circuitBreaker.openUntil > 0
       => circuitBreaker'.openUntil <= circuitBreaker.openUntil]_vars

\* ---------------------------------------------------------------- C37
\* C37: within a season the last_gw of SnapshotCurrent never decreases,
\* whatever the interleaving of the harvestIfNeeded invocations, two
\* overlapping ones that saw different latest finished gameweeks included.
C37_SnapshotNeverDecreases ==
  [][(harvests.snap.exists /\ harvests'.snap.season = harvests.snap.season)
       => harvests'.snap.last_gw >= harvests.snap.last_gw]_vars

\* ---------------------------------------------------------------- C38
\* C38: an invocation that resolved the current season returns noop
\* already_up_to_date only if the stored SnapshotCurrent is of that season
\* and its last_gw is at least prevId.
C38_NoopOnlyForOwnSeason ==
  [][\A i \in Invocations :
       (/\ harvests.inv[i].pc = "check"
        /\ harvests'.inv[i].reason = "already_up_to_date"
        /\ harvests.inv[i].season = harvests.season)
         => /\ harvests.snap.exists
            /\ harvests.snap.season = harvests.inv[i].season
            /\ harvests.snap.last_gw >= harvests.inv[i].prevId]_vars

\* ---------------------------------------------------------------- C39
\* C39: a processEntryOnce call that returns ok = false from its catch block
\* leaves the blob as it was. In the first build of an entry (attempts 1,
\* never reset) there was no blob when the call began, so there is none when
\* it returns.
C39_FailedBuildKeepsBlob ==
  [][\A w \in Workers :
       (/\ peo[w].pc = "catch"
        /\ peo'[w].res = "error"
        /\ peo[w].newAttempts = 1)
         => ~entryBlob'[peo[w].e].exists]_vars

\* ---------------------------------------------------------------- C40
\* this step begins the call whose record goes from x to y: it leaves idle,
\* or it throws at once
callBegins(x, y) ==
  x.pc = "idle" /\ (y.pc # "idle" \/ (x.res = "none" /\ y.res # "none"))

\* the call has not run in this cycle / has returned or thrown in this cycle
notRun(x) == x.pc = "idle" /\ x.res = "none"
settled(x) == x.pc = "idle" /\ x.res # "none"

\* C40: in a cron cycle harvestIfNeeded, retryErroredEntries and
\* updateHealthStateSummary run in this order, each once: a call begins only
\* when the calls before it have returned or thrown and those after it have
\* not run, the cycle ends only when all three have, a throw included; the
\* states do not change while the health pass runs, so the summary it stores
\* counts the states the cycle's retry pass left.
C40_CycleOrder ==
  [][/\ callBegins(hv, hv') => notRun(hv) /\ notRun(rt) /\ notRun(health)
     /\ callBegins(rt, rt') => settled(hv) /\ notRun(rt) /\ notRun(health)
     /\ callBegins(health, health') => settled(hv) /\ settled(rt) /\ notRun(health)
     /\ now' # now => settled(hv) /\ settled(rt) /\ settled(health)
     /\ health.pc # "idle" => entryState' = entryState /\ settled(rt)
     /\ healthSummary' # healthSummary
          => /\ settled(rt)
             /\ \A st \in Statuses :
                  healthSummary'.counts[st] =
                    Cardinality({e \in Entries : entryState[e].status = st})]_vars

\* a cycle whose harvest threw has gone on: its retry pass rebuilt an errored
\* entry, and its health pass stored a summary that counts the entry complete
C40_Witness ==
  /\ hv.pc = "idle" /\ hv.res = "threw"
  /\ rt.pc = "idle" /\ rt.succeeded = 1
  /\ health.res = "returned"
  /\ healthSummary.updated_at = now
  /\ healthSummary.counts["complete"] = entriesWith("complete")
  /\ healthSummary.counts["errored"] < NumEntries
  /\ \E e \in Entries : entryState[e].status = "complete" /\ entryState[e].attempts = 2

====
